---- MODULE Spec2Model ----
(***************************************************************************)
(* The response pipeline of pickle-ai: PersonaBrain.process() with its     *)
(* gating state, the ContextAssembler writes it performs, the short-term   *)
(* deque and the long-term store.                                          *)
(*                                                                         *)
(* process() is a coroutine with exactly one suspension point, the await   *)
(* of the LLM call (persona_engine.py:308).  Everything before it runs     *)
(* without interruption on the event loop, and so does everything after    *)
(* it.  A call is therefore two steps: Begin (record, combo check,         *)
(* admission, cooldown, busy gate, message assembly, LLM request) and the  *)
(* completion of the LLM request (LlmReturns or LlmRaises).                *)
(*                                                                         *)
(* Texts are sequences of one-character strings, so that lower(), strip()  *)
(* and difflib's ratio() are computed and not assumed.  Times are clock    *)
(* readings in whole units; an unset optional is the empty sequence and a  *)
(* set one is a one-element sequence.                                      *)
(***************************************************************************)
EXTENDS Integers, Sequences, FiniteSets, TLC

\* ---------------------------------------------------------------- bounds
MaxCalls == 3
MaxTime == 2
MaxRingCalls == 6
StmCapacity == 3
MaxQueue == 1
MaxLoopCalls == 2
MaxCapacity == 3
MaxAdds == 5
MaxRecords == 2
MaxClock == 1
MaxWords == 5
MaxEntries == 3
MaxCount == 2

\* the longest content of a reply of the LLM, in tokens
MaxTokens == 5

\* process() calls begun while the persona is updated
MaxPersonaCalls == 3

\* brain.process calls made by the main loop fed with different samples
MaxBatchCalls == 1

\* brain.process calls made while the output loop runs
MaxOutputs == 2

\* entries added to a ShortTermMemory that is read
MaxReadAdds == 3

\* process() calls made for chat and vision events in turn
MaxComboCalls == 5

\* process() calls made on a brain whose memory layer can raise
MaxLockCalls == 3

\* events put on the input queue, and brain.process calls made for them
MaxPuts == 3
MaxServed == 3

\* chat messages received by a TwitchChatProcessor
MaxChat == 4

\* max_batch_size of the TwitchChatProcessor, 10 by default
MaxBatchSize == 2

\* max_tokens of a ContextManager, and the longest content added to it
MaxContextTokens == 3
MaxContentLen == 13

\* ------------------------------------------------------------- constants
RecentMaxLen == 5
CHARS_PER_TOKEN == 4
MIN_WORDS_FOR_LTM == 5
ThresholdNum == 6
ThresholdDen == 10
DefaultSpeechRate == 20
DefaultVisionRate == 40
VisionBatchSize == 5
VisionBatchTimeout == 15
WaitTimeout == 1
HashModulus == 10000
DefaultNResults == 5
DefaultMinRelevance == 30

None == <<>>
NoSource == "<None>"

Min(a, b) == IF a < b THEN a ELSE b

\* --------------------------------------------------------------- strings
Lowercase ==
    <<"a", "b", "c", "d", "e", "f", "g", "h", "i", "j", "k", "l", "m",
      "n", "o", "p", "q", "r", "s", "t", "u", "v", "w", "x", "y", "z">>

Uppercase ==
    <<"A", "B", "C", "D", "E", "F", "G", "H", "I", "J", "K", "L", "M",
      "N", "O", "P", "Q", "R", "S", "T", "U", "V", "W", "X", "Y", "Z">>

LowerLetters == {Lowercase[i] : i \in 1..Len(Lowercase)}

UpperLetters == {Uppercase[i] : i \in 1..Len(Uppercase)}

Letters == LowerLetters \cup UpperLetters

Digits == {"0", "1", "2", "3", "4", "5", "6", "7", "8", "9"}

IsSpace(ch) == ch = " "

\* the lower-case letter of each upper-case letter
LowerOf ==
    [ch \in UpperLetters |->
        Lowercase[CHOOSE i \in 1..Len(Uppercase) : Uppercase[i] = ch]]

LowerChar(ch) == IF ch \in UpperLetters THEN LowerOf[ch] ELSE ch

Lower(t) == [i \in 1..Len(t) |-> LowerChar(t[i])]

\* the upper-case letter of each lower-case letter
UpperOf ==
    [ch \in LowerLetters |->
        Uppercase[CHOOSE i \in 1..Len(Lowercase) : Lowercase[i] = ch]]

UpperChar(ch) == IF ch \in LowerLetters THEN UpperOf[ch] ELSE ch

Upper(t) == [i \in 1..Len(t) |-> UpperChar(t[i])]

RECURSIVE LStrip(_)
LStrip(t) == IF t # <<>> /\ IsSpace(Head(t)) THEN LStrip(Tail(t)) ELSE t

RECURSIVE RStrip(_)
RStrip(t) ==
    IF t # <<>> /\ IsSpace(t[Len(t)]) THEN RStrip(SubSeq(t, 1, Len(t) - 1)) ELSE t

Strip(t) == RStrip(LStrip(t))

\* str.split(): the maximal runs of non-whitespace characters
RECURSIVE Split(_)
Split(t) ==
    LET s == LStrip(t)
        n == IF \E i \in 1..Len(s) : IsSpace(s[i])
             THEN (CHOOSE i \in 1..Len(s) :
                      IsSpace(s[i]) /\ \A k \in 1..(i - 1) : ~IsSpace(s[k])) - 1
             ELSE Len(s)
    IN  IF s = <<>> THEN <<>>
        ELSE <<SubSeq(s, 1, n)>> \o Split(SubSeq(s, n + 1, Len(s)))

\* ------------------------------------------------ difflib.SequenceMatcher
\* length of the common run of a from i and b from j, inside a[..ahi], b[..bhi]
RECURSIVE RunLen(_, _, _, _, _, _)
RunLen(a, b, i, j, ahi, bhi) ==
    IF i <= ahi /\ j <= bhi /\ a[i] = b[j]
    THEN 1 + RunLen(a, b, i + 1, j + 1, ahi, bhi)
    ELSE 0

\* find_longest_match: the longest block, earliest in a, then earliest in b
FindLongestMatch(a, b, alo, ahi, blo, bhi) ==
    LET starts == (alo..ahi) \X (blo..bhi)
        size(p) == RunLen(a, b, p[1], p[2], ahi, bhi)
        better(p, q) == \/ size(p) > size(q)
                        \/ size(p) = size(q) /\ p[1] < q[1]
                        \/ size(p) = size(q) /\ p[1] = q[1] /\ p[2] <= q[2]
    IN  IF starts = {} THEN [i |-> alo, j |-> blo, size |-> 0]
        ELSE LET p == CHOOSE p \in starts : \A q \in starts : better(p, q)
             IN  [i |-> p[1], j |-> p[2], size |-> size(p)]

\* get_matching_blocks: total size of the blocks found left and right of
\* the longest one
RECURSIVE MatchingTotal(_, _, _, _, _, _)
MatchingTotal(a, b, alo, ahi, blo, bhi) ==
    LET m == FindLongestMatch(a, b, alo, ahi, blo, bhi)
    IN  IF m.size = 0 THEN 0
        ELSE m.size
             + MatchingTotal(a, b, alo, m.i - 1, blo, m.j - 1)
             + MatchingTotal(a, b, m.i + m.size, ahi, m.j + m.size, bhi)

\* ratio() > threshold, with ratio() = 2.0 * matches / (len(a) + len(b)),
\* and 1.0 when both are empty
RatioAbove(a, b) ==
    LET total == Len(a) + Len(b)
        matches == MatchingTotal(a, b, 1, Len(a), 1, Len(b))
    IN  IF total = 0 THEN TRUE
        ELSE 2 * matches * ThresholdDen > ThresholdNum * total

\* ----------------------------------------------------------- short-term
NoUser == "<None>"

MemoryEntry(role, content, source, user) ==
    [role |-> role, content |-> content, source |-> source, user |-> user]

\* an append that never evicts
StmAddUnbounded(memory, max_size, entry) == Append(memory, entry)

\* an append that drops the new entry when the deque is full
StmAddDropsNewest(memory, max_size, entry) ==
    IF Len(memory) >= max_size THEN memory ELSE Append(memory, entry)

\* deque(maxlen = max_size).append(entry)
StmAdd(memory, max_size, entry) ==
    LET appended == Append(memory, entry)
    IN  IF Len(appended) > max_size
        THEN SubSeq(appended, Len(appended) - max_size + 1, Len(appended))
        ELSE appended

StmAddAssistantMessage(memory, max_size, content) ==
    StmAdd(memory, max_size, MemoryEntry("assistant", content, NoSource, NoUser))

\* ------------------------------------------------------------ long-term
\* \w
WordChars == Letters \cup Digits \cup {"_"}

IsWordChar(ch) == ch \in WordChars

\* \b before position p of content (p = Len(content) + 1: at its end)
Boundary(content, p) ==
    LET before == p > 1 /\ IsWordChar(content[p - 1])
        after == p <= Len(content) /\ IsWordChar(content[p])
    IN  before # after

\* the alternatives of the keyword patterns, with (?:ed|ing)? and (?:d)?
\* and (?:ed)? expanded
Keywords ==
    {<<"p", "l", "a", "y">>, <<"p", "l", "a", "y", "e", "d">>,
     <<"p", "l", "a", "y", "i", "n", "g">>,
     <<"w", "a", "t", "c", "h">>, <<"w", "a", "t", "c", "h", "e", "d">>,
     <<"w", "a", "t", "c", "h", "i", "n", "g">>,
     <<"s", "t", "r", "e", "a", "m">>, <<"s", "t", "r", "e", "a", "m", "e", "d">>,
     <<"s", "t", "r", "e", "a", "m", "i", "n", "g">>,
     <<"l", "o", "v", "e">>, <<"h", "a", "t", "e">>, <<"l", "i", "k", "e">>,
     <<"p", "r", "e", "f", "e", "r">>, <<"f", "a", "v", "o", "r", "i", "t", "e">>,
     <<"n", "a", "m", "e">>, <<"n", "a", "m", "e", "d">>,
     <<"c", "a", "l", "l">>, <<"c", "a", "l", "l", "e", "d">>,
     <<"t", "o", "m", "o", "r", "r", "o", "w">>,
     <<"y", "e", "s", "t", "e", "r", "d", "a", "y">>,
     <<"a", "l", "w", "a", "y", "s">>, <<"n", "e", "v", "e", "r">>,
     <<"u", "s", "u", "a", "l", "l", "y">>,
     <<"s", "o", "m", "e", "t", "i", "m", "e", "s">>,
     <<"b", "i", "r", "t", "h", "d", "a", "y">>,
     <<"a", "n", "n", "i", "v", "e", "r", "s", "a", "r", "y">>,
     <<"h", "o", "l", "i", "d", "a", "y">>}

\* the heads of next\s+\w+ and last\s+\w+
TimeHeads == {<<"n", "e", "x", "t">>, <<"l", "a", "s", "t">>}

\* word stands in content from position i, case ignored
StandsAt(content, i, word) ==
    /\ i + Len(word) - 1 <= Len(content)
    /\ \A k \in 1..Len(word) : LowerChar(content[i + k - 1]) = word[k]

\* \b(keyword)\b under re.IGNORECASE
MatchesKeyword(content) ==
    \E i \in 1..Len(content) :
        /\ Boundary(content, i)
        /\ \E word \in Keywords :
              /\ StandsAt(content, i, word)
              /\ Boundary(content, i + Len(word))

\* \b(next\s+\w+|last\s+\w+)\b under re.IGNORECASE
MatchesTimeReference(content) ==
    \E i \in 1..Len(content) : \E word \in TimeHeads :
        /\ Boundary(content, i)
        /\ StandsAt(content, i, word)
        /\ \E j \in (i + Len(word) + 1)..Len(content) :
              /\ \A k \in (i + Len(word))..(j - 1) : IsSpace(content[k])
              /\ IsWordChar(content[j])

\* \b[A-Z][a-z]+(?:\s+[A-Z][a-z]+)*\b under re.IGNORECASE: both classes
\* take every letter
MatchesProperNoun(content) ==
    \E i \in 1..Len(content) :
        /\ Boundary(content, i)
        /\ \E j \in (i + 1)..Len(content) :
              /\ Boundary(content, j + 1)
              /\ \A k \in i..j : content[k] \in Letters

\* re.search over ENTITY_PATTERNS
MatchesEntityPattern(content) ==
    \/ MatchesKeyword(content)
    \/ MatchesTimeReference(content)
    \/ MatchesProperNoun(content)

ShouldSaveToLtm(content) ==
    \/ Len(Split(content)) >= MIN_WORDS_FOR_LTM
    \/ MatchesEntityPattern(content)

\* add_memory: the store after the call
LtmAddMemory(store, content, source, user, role, force) ==
    IF ~force /\ ~ShouldSaveToLtm(content)
    THEN store
    ELSE Append(store, [content |-> content,
                        source  |-> IF source = NoSource THEN "unknown" ELSE source,
                        user    |-> IF user = NoUser THEN "" ELSE user,
                        role    |-> role,
                        force   |-> force])

\* ------------------------------------------------------------ assembler
\* the short-term write made only for content that the long-term store takes
ProcessInputIfSaved(memory, store, content, source, user, role) ==
    <<IF ShouldSaveToLtm(content)
      THEN StmAdd(memory, StmCapacity, MemoryEntry(role, content, source, user))
      ELSE memory,
      LtmAddMemory(store, content, source, user, role, FALSE)>>

\* process_input: <<stm, ltm>> after the call
ProcessInput(memory, store, content, source, user, role) ==
    <<StmAdd(memory, StmCapacity, MemoryEntry(role, content, source, user)),
      LtmAddMemory(store, content, source, user, role, FALSE)>>

\* the long-term write of a response made without force
ProcessResponseUnforced(memory, store, content) ==
    <<StmAddAssistantMessage(memory, StmCapacity, content),
      LtmAddMemory(store, content, NoSource, NoUser, "assistant", FALSE)>>

\* process_response: <<stm, ltm>> after the call
ProcessResponse(memory, store, content) ==
    <<StmAddAssistantMessage(memory, StmCapacity, content),
      LtmAddMemory(store, content, NoSource, NoUser, "assistant", TRUE)>>

\* ---------------------------------------------------------------- brain
VARIABLES
    now,                  \* datetime.now()
    behavior,             \* persona.behavior
    last_response_time,   \* None or <<t>>
    last_trigger_source,  \* NoSource or a source
    processing_lock,      \* _processing_lock
    recent_responses,     \* _recent_responses, oldest first
    stm,                  \* assembler.stm._memory, oldest first
    ltm,                  \* assembler.ltm collection, in insertion order
    pc,                   \* per call: "idle" or "awaiting" (suspended at the LLM call)
    event,                \* per call: the event of the suspended call
    is_combo_trigger,     \* per call: the local of that name
    prompt,               \* per call: the local system_prompt
    returned,             \* the call that returned last and what it returned
    log,                  \* the last line logged by process()
    ncalls,               \* number of process() calls begun
    entered,              \* history: the call entered last and its event
    replied,              \* history: the LLM call completed last and its outcome
    committed             \* history: the responses committed, oldest first

\* the Orchestrator and its main loop
VARIABLES
    input_queue,          \* Orchestrator.input_queue, oldest first
    output_queue,         \* Orchestrator.output_queue, oldest first
    running,              \* Orchestrator._running
    vision_buffer,        \* _main_loop's vision_buffer
    loop_pc,              \* where _main_loop stands
    loop_event,           \* the event _main_loop has passed to brain.process
    loop_calls,           \* ncalls when _main_loop made that call
    loop_errors,          \* number of main_loop_error lines logged
    memory_errors         \* history: number of errors raised by the memory layer

loopvars == <<input_queue, output_queue, running, vision_buffer, loop_pc,
              loop_event, loop_calls, loop_errors, memory_errors>>

\* a ShortTermMemory used on its own
VARIABLES
    memory,               \* ShortTermMemory._memory, oldest first
    max_size,             \* ShortTermMemory.max_size
    added                 \* history: the entries passed to add, oldest first

stmvars == <<memory, max_size, added>>

\* a LongTermMemory used on its own
VARIABLES
    collection,           \* LongTermMemory._collection, in insertion order
    clock,                \* datetime.now() as add_memory reads it
    ltm_call              \* the last call of a LongTermMemory method, its outcome

ltmvars == <<collection, clock, ltm_call>>

\* a ContextAssembler used on its own, with its TokenCompressor
VARIABLES
    stm_message_count,    \* ContextAssembler.stm_message_count
    compressor,           \* ContextAssembler.compressor: None or its fields
    build                 \* the last call of build_messages, its outcome

buildvars == <<stm_message_count, compressor, build>>

\* an LLMClient used on its own
VARIABLES
    llm_call              \* the last call of an LLMClient method, its outcome

llmvars == <<llm_call>>

\* the persona of the brain, which process() reads and update_persona writes
VARIABLES
    persona,              \* PersonaBrain.persona without its behavior
    persona_settings      \* history: None or the settings given to update_persona last

personavars == <<persona, persona_settings>>

\* the time of the event loop as _main_loop reads it, in seconds
VARIABLES
    elapsed,              \* time() - last_vision_process, up to the batch timeout
    waited                \* time spent in the await that _main_loop stands at

timevars == <<elapsed, waited>>

\* _output_loop and the two sinks
VARIABLES
    out_pc,               \* where _output_loop stands: "get" or "gather"
    sinks,                \* per sink: the state of its handle() task for each output taken
    output_errors,        \* number of output_loop_error lines logged
    produced,             \* history: the OutputEvents returned by brain.process
    taken,                \* history: the outputs taken from the output queue
    handled               \* history: per sink, the outputs passed to handle()

outvars == <<out_pc, sinks, output_errors, produced, taken, handled>>

\* the order in which _main_loop serves the input queue
VARIABLES
    queued,               \* history: the events put on the input queue, oldest first
    passed                \* history: the events passed to brain.process, oldest first

ordervars == <<queued, passed>>

\* the emotion-aware PersonaBrain of ai-persona
VARIABLES
    emotions,             \* persona.emotions, the declared vocabulary
    emotion_call          \* the last call of its process(), where it stands

emotionvars == <<emotions, emotion_call>>

\* the reads of a ShortTermMemory used on its own
VARIABLES
    recent_call           \* the last call of get_recent, what it saw and returned

\* the TwitchChatProcessor of ai-persona
VARIABLES
    message_buffer,       \* self.message_buffer, the messages not yet flushed
    bot_running,          \* self._running
    chat_queue,           \* self.queue: None until run() sets it
    received              \* history: the messages buffered, oldest first

twitchvars == <<message_buffer, bot_running, chat_queue, received>>

\* the AvatarServer
VARIABLES
    connections,          \* self.connections, the set of the open websockets
    broadcast_call        \* the last call of broadcast(), where it stands

avatarvars == <<connections, broadcast_call>>

\* the ContextManager of ai-persona
VARIABLES
    entries,              \* self.entries, oldest first
    max_tokens            \* self.max_tokens

contextvars == <<entries, max_tokens>>

othervars == <<twitchvars, avatarvars, contextvars>>

\* the components modelled on their own
extras == <<ordervars, emotionvars, recent_call, othervars>>

\* the assembler and the LLM client used on their own, the persona, the
\* time, the output loop, the other components
parts == <<buildvars, llmvars, personavars, timevars, outvars, extras>>

\* the objects used on their own
objects == <<stmvars, ltmvars, parts>>

\* the state of the objects that PersonaBrain.process() does not touch
outside == <<loopvars, objects>>

brain == <<now, behavior, last_response_time, last_trigger_source,
           processing_lock, recent_responses, stm, ltm, pc, event,
           is_combo_trigger, prompt, returned, log, ncalls, entered,
           replied, committed>>

vars == <<brain, outside>>

gating == <<last_response_time, last_trigger_source, recent_responses>>

Calls == {1, 2}

Rolls == {0, 99}

InputEvent(source, content, users) ==
    [source |-> source, content |-> content, users |-> users]

Events ==
    {InputEvent("chat", <<"a">>, <<"u1">>),
     InputEvent("vision", <<"a", "b">>, <<>>),
     InputEvent("speech", <<"a">>, <<>>),
     InputEvent("donation", <<"a">>, <<>>)}

Texts ==
    {<<>>, <<"a">>, <<" ", "A">>, <<"a", "b">>, <<"c">>}

NoEvent == InputEvent(NoSource, <<>>, <<>>)

Null == [kind |-> "None", text |-> <<>>]
OutputEvent(text) == [kind |-> "OutputEvent", text |-> text]

Return(c, value) == [call |-> c, value |-> value]

Entered(c, e) == [call |-> c, event |-> e]

Replied(c, raised, text) == [call |-> c, raised |-> raised, text |-> text]

\* a line logged by process(): the event name and the fields the claims read
LogLine(name, reason, text, combo) ==
    [event |-> name, reason |-> reason, text |-> text, is_combo |-> combo]

Skipping(reason) == LogLine("skipping_response", reason, <<>>, FALSE)

\* a plain list in place of the bounded deque
RecentAppendUnbounded(ring, text) == Append(ring, text)

\* deque(maxlen = 5).append(text)
RecentAppend(ring, text) ==
    LET appended == Append(ring, text)
    IN  IF Len(appended) > RecentMaxLen
        THEN SubSeq(appended, Len(appended) - RecentMaxLen + 1, Len(appended))
        ELSE appended

\* the comparison made on the raw texts, without lower() and strip()
IsRepetitiveRaw(text, ring) ==
    IF text = <<>> THEN FALSE
    ELSE \E k \in 1..Len(ring) : text = ring[k] \/ RatioAbove(text, ring[k])

IsRepetitive(text, ring) ==
    IF text = <<>> THEN FALSE
    ELSE LET text_lower == Strip(Lower(text))
         IN  \E k \in 1..Len(ring) :
                LET past_lower == Strip(Lower(ring[k]))
                IN  text_lower = past_lower \/ RatioAbove(text_lower, past_lower)

\* an unknown source falls through to True
ShouldRespondByDefault(e, roll) ==
    CASE e.source = "chat"   -> TRUE
      [] e.source = "vision" -> roll < behavior.vision_rate
      [] e.source = "speech" -> roll < behavior.speech_rate
      [] OTHER               -> TRUE

\* roll is the value of random.random(), in hundredths
ShouldRespond(e, roll) ==
    CASE e.source = "chat"   -> TRUE
      [] e.source = "vision" -> roll < behavior.vision_rate
      [] e.source = "speech" -> roll < behavior.speech_rate
      [] OTHER               -> FALSE

\* the chaining never used up: any chat response committed before allows it
IsComboSticky(e) ==
    /\ e.source = "vision"
    /\ \E k \in 1..Len(committed) : committed[k].source = "chat"

\* no chaining of a vision event after a chat response
IsComboNever(e) == FALSE

IsCombo(e) == e.source = "vision" /\ last_trigger_source = "chat"

\* the cooldown compared with <= instead of <
CooldownRejectsInclusive(combo) ==
    /\ ~combo
    /\ last_response_time # None
    /\ now - last_response_time[1] <= behavior.cooldown

CooldownRejects(combo) ==
    /\ ~combo
    /\ last_response_time # None
    /\ now - last_response_time[1] < behavior.cooldown

Behaviors ==
    {[vision_rate |-> v, speech_rate |-> DefaultSpeechRate, cooldown |-> 2] :
        v \in {0, DefaultVisionRate}}

\* no memory object is used on its own
NoShortTermMemory ==
    /\ memory = <<>>
    /\ max_size = 0
    /\ added = <<>>

NoId == <<>>

\* no method of LongTermMemory has been called
NoCall ==
    [op |-> "", content |-> <<>>, force |-> FALSE, n_results |-> 0,
     min_relevance |-> 0, count |-> 0, memory_id |-> NoId, saved |-> FALSE,
     queried |-> FALSE, candidates |-> <<>>, value |-> <<>>, verdict |-> FALSE,
     raised |-> FALSE]

NoLongTermMemory ==
    /\ collection = <<>>
    /\ clock = 0
    /\ ltm_call = NoCall

\* what ltm.retrieve answers: the results it returns, or it raises
Answer(results, raised) == [results |-> results, raised |-> raised]

\* build_messages has not been called
NoBuild ==
    [op |-> "", current_input |-> <<>>, system_prompt |-> <<>>,
     answer |-> Answer(<<>>, FALSE), compress |-> FALSE, outcome |-> "",
     messages |-> <<>>, raised |-> FALSE]

NoAssembler ==
    /\ stm_message_count = 0
    /\ compressor = None
    /\ build = NoBuild

\* no method of LLMClient has been called
NoRequest ==
    [op |-> "", status |-> 0, body |-> "", content |-> <<>>, value |-> <<>>,
     raised |-> ""]

NoLlmClient == llm_call = NoRequest

\* the persona loaded from the YAML file
YamlPersona ==
    [name |-> "Pickle", streamer_name |-> "Streamer", personality |-> "p0",
     style |-> <<"s0">>]

\* update_persona has not been called
NoUpdate ==
    /\ persona = YamlPersona
    /\ persona_settings = None

\* no time is read
NoTimer ==
    /\ elapsed = 0
    /\ waited = 0

Sinks == {"tts", "avatar"}

\* _output_loop has taken nothing
NoOutput ==
    /\ out_pc = "get"
    /\ sinks = [s \in Sinks |-> <<>>]
    /\ output_errors = 0
    /\ produced = <<>>
    /\ taken = <<>>
    /\ handled = [s \in Sinks |-> <<>>]

\* nothing is recorded of the order of the events
NoOrder ==
    /\ queued = <<>>
    /\ passed = <<>>

\* process() of the emotion-aware brain has not been called
NoProcess ==
    [pc |-> "idle", content |-> <<>>, responded |-> FALSE, raised |-> FALSE,
     reply |-> [text |-> <<>>, emotion |-> ""],
     value |-> [kind |-> "None", text |-> <<>>, emotion |-> "", priority |-> 0]]

\* no emotion-aware brain is constructed
NoEmotion ==
    /\ emotions = <<>>
    /\ emotion_call = NoProcess

\* get_recent has not been called
NoRead == [called |-> FALSE, n |-> None, deque |-> <<>>, value |-> <<>>]

\* no TwitchChatProcessor is constructed
NoTwitch ==
    /\ message_buffer = <<>>
    /\ bot_running = FALSE
    /\ chat_queue = None
    /\ received = <<>>

\* broadcast() has not been called
NoBroadcast ==
    [pc |-> "idle", ws |-> "", todo |-> {}, size |-> 0, dead |-> {},
     sent |-> {}, known |-> {}, stayed |-> {}, outcome |-> "none",
     left |-> {}]

\* no AvatarServer is constructed
NoAvatar ==
    /\ connections = {}
    /\ broadcast_call = NoBroadcast

\* no ContextManager is constructed
NoContext ==
    /\ entries = <<>>
    /\ max_tokens = 0

NoOthers ==
    /\ NoTwitch
    /\ NoAvatar
    /\ NoContext

NoExtras ==
    /\ NoOrder
    /\ NoEmotion
    /\ recent_call = NoRead
    /\ NoOthers

NoParts ==
    /\ NoExtras
    /\ NoAssembler
    /\ NoLlmClient
    /\ NoUpdate
    /\ NoTimer
    /\ NoOutput
    /\ NoOutput
    /\ NoTimer

NoObjects ==
    /\ NoShortTermMemory
    /\ NoLongTermMemory
    /\ NoParts

\* no Orchestrator is constructed: process() is called directly
NoOrchestrator ==
    /\ input_queue = <<>>
    /\ output_queue = <<>>
    /\ running = FALSE
    /\ vision_buffer = <<>>
    /\ loop_pc = "stopped"
    /\ loop_event = NoEvent
    /\ loop_calls = 0
    /\ loop_errors = 0
    /\ memory_errors = 0

Init ==
    /\ now = 0
    /\ behavior \in Behaviors
    /\ last_response_time = None
    /\ last_trigger_source = NoSource
    /\ processing_lock = FALSE
    /\ recent_responses = <<>>
    /\ stm = <<>>
    /\ ltm = <<>>
    /\ pc = [c \in Calls |-> "idle"]
    /\ event = [c \in Calls |-> NoEvent]
    /\ is_combo_trigger = [c \in Calls |-> FALSE]
    /\ prompt = [c \in Calls |-> <<>>]
    /\ returned = Return(0, Null)
    /\ log = LogLine("", "", <<>>, FALSE)
    /\ ncalls = 0
    /\ entered = Entered(0, NoEvent)
    /\ replied = Replied(0, FALSE, <<>>)
    /\ committed = <<>>
    /\ NoOrchestrator
    /\ NoObjects

\* the names the prompt writes in capitals
Capitals(name) ==
    CASE name = "Streamer"     -> "STREAMER"
      [] name = "the streamer" -> "THE STREAMER"
      [] name = "Ann"          -> "ANN"
      [] OTHER                 -> name

RECURSIVE StyleRules(_)
\* "\n".join(f"- {s}" for s in style)
StyleRules(style) ==
    IF style = <<>> THEN <<>>
    ELSE IF Len(style) = 1 THEN <<"- ", style[1]>>
    ELSE <<"- ", style[1], "\n">> \o StyleRules(Tail(style))

\* _build_system_prompt(): the fixed text between two fields is cut short
BuildSystemPrompt(config) ==
    LET streamer_name == IF config.streamer_name # "" THEN config.streamer_name
                         ELSE "the streamer"
    IN  <<"\nYou are ", config.name, ", the collective voice of ",
          streamer_name, "'s Twitch chat.\n\nTHE STREAMER: ", streamer_name,
          "\n- You are here to support ", streamer_name,
          "\n- You are the bridge ... ASK ", streamer_name,
          " that question.\n ... - If chat is advising ", streamer_name,
          ", gives that advice.\n ... PERSONALITY ...\n", config.personality,
          "\n ... STYLE ...\n">>
        \o StyleRules(config.style)
        \o <<"\n ... - Occasionally address ", streamer_name,
             " by name to grab their attention (e.g. \"Yo ", streamer_name,
             ", chat is saying...\").\n ... 3. Speak that sentiment out loud to ",
             streamer_name, ".\n ... HOW TO HELP ", Capitals(streamer_name),
             "\n ... - Be the filter that lets ", streamer_name,
             " focus on the game ...\n- Don't annoy ", streamer_name,
             " with spam. Summarize it.\n ... - You are simply ", config.name,
             ".\n ... OUTPUT FORMAT ...\n">>

\* a new call runs in the first coroutine that is not suspended
Free(c) == pc[c] = "idle" /\ \A d \in Calls : d < c => pc[d] # "idle"

\* the busy gate left out
BusyRejectsNever == FALSE

BusyRejects == processing_lock

\* the locals of a call that has returned are gone
Finish(c) ==
    /\ pc' = [pc EXCEPT ![c] = "idle"]
    /\ event' = [event EXCEPT ![c] = NoEvent]
    /\ is_combo_trigger' = [is_combo_trigger EXCEPT ![c] = FALSE]
    /\ prompt' = [prompt EXCEPT ![c] = <<>>]

\* process(), from its entry to its first return or to the await of the LLM
Begin(c, e, roll, limit) ==
    LET user == IF e.users # <<>> THEN e.users[1] ELSE NoUser
        mem == ProcessInput(stm, ltm, e.content, e.source, user, "user")
        combo == IsCombo(e)
        reject(reason) ==
            /\ returned' = Return(c, Null)
            /\ log' = Skipping(reason)
            /\ UNCHANGED <<pc, event, is_combo_trigger, prompt,
                           processing_lock>>
    IN  /\ Free(c)
        /\ ncalls < limit
        /\ ncalls' = ncalls + 1
        /\ entered' = Entered(c, e)
        /\ stm' = mem[1]
        /\ ltm' = mem[2]
        /\ IF ~combo /\ ~ShouldRespond(e, roll) THEN reject("criteria_not_met")
           ELSE IF CooldownRejects(combo) THEN reject("cooldown")
           ELSE IF BusyRejects THEN reject("busy_processing")
           ELSE /\ processing_lock' = TRUE
                /\ pc' = [pc EXCEPT ![c] = "awaiting"]
                /\ event' = [event EXCEPT ![c] = e]
                /\ is_combo_trigger' = [is_combo_trigger EXCEPT ![c] = combo]
                /\ prompt' =
                      [prompt EXCEPT ![c] = BuildSystemPrompt(persona)]
                /\ UNCHANGED <<returned, log>>
        /\ UNCHANGED <<now, behavior, gating, replied, committed, outside>>

\* the commit without the update of last_trigger_source
CommitKeepsSource(c, text) ==
    LET mem == ProcessResponse(stm, ltm, text)
    IN  /\ stm' = mem[1]
        /\ ltm' = mem[2]
        /\ last_response_time' = <<now>>
        /\ recent_responses' = RecentAppend(recent_responses, text)
        /\ log' = LogLine("persona_response", "", text, is_combo_trigger[c])
        /\ returned' = Return(c, OutputEvent(text))
        /\ committed' = Append(committed,
                               [text |-> text, source |-> event[c].source,
                                time |-> now, combo |-> is_combo_trigger[c]])
        /\ UNCHANGED last_trigger_source

\* the commit of a response: memory, gating state, the OutputEvent
Commit(c, text) ==
    LET mem == ProcessResponse(stm, ltm, text)
    IN  /\ stm' = mem[1]
        /\ ltm' = mem[2]
        /\ last_response_time' = <<now>>
        /\ last_trigger_source' = event[c].source
        /\ recent_responses' = RecentAppend(recent_responses, text)
        /\ log' = LogLine("persona_response", "", text, is_combo_trigger[c])
        /\ returned' = Return(c, OutputEvent(text))
        /\ committed' = Append(committed,
                               [text |-> text, source |-> event[c].source,
                                time |-> now, combo |-> is_combo_trigger[c]])

\* the LLM call returns a PersonaResponse with this text
LlmReturns(c, text) ==
    /\ pc[c] = "awaiting"
    /\ Finish(c)
    /\ processing_lock' = FALSE
    /\ replied' = Replied(c, FALSE, text)
    /\ IF IsRepetitive(text, recent_responses)
       THEN /\ returned' = Return(c, Null)
            /\ log' = LogLine("skipping_response", "repetitive_content", text, FALSE)
            /\ UNCHANGED <<stm, ltm, gating, committed>>
       ELSE Commit(c, text)
    /\ UNCHANGED <<now, behavior, ncalls, entered, outside>>

\* the LLM error handled without the finally clause
LlmRaisesLockHeld(c) ==
    /\ pc[c] = "awaiting"
    /\ Finish(c)
    /\ replied' = Replied(c, TRUE, <<>>)
    /\ returned' = Return(c, Null)
    /\ log' = LogLine("persona_llm_error", "", <<>>, FALSE)
    /\ UNCHANGED <<now, behavior, gating, processing_lock, stm, ltm, ncalls,
                   entered, committed, outside>>

\* the LLM call raises
LlmRaises(c) ==
    /\ pc[c] = "awaiting"
    /\ Finish(c)
    /\ processing_lock' = FALSE
    /\ replied' = Replied(c, TRUE, <<>>)
    /\ returned' = Return(c, Null)
    /\ log' = LogLine("persona_llm_error", "", <<>>, FALSE)
    /\ UNCHANGED <<now, behavior, gating, stm, ltm, ncalls, entered, committed,
                   outside>>

\* the clock advances
Tick ==
    /\ now < MaxTime
    /\ now' = now + 1
    /\ UNCHANGED <<behavior, gating, processing_lock, stm, ltm, pc, event,
                   is_combo_trigger, prompt, returned, log, ncalls,
                   entered, replied, committed, outside>>

Next ==
    \/ \E c \in Calls, e \in Events, roll \in Rolls : Begin(c, e, roll, MaxCalls)
    \/ \E c \in Calls, text \in Texts : LlmReturns(c, text)
    \/ \E c \in Calls : LlmRaises(c)
    \/ Tick

Spec == Init /\ [][Next]_vars

\* A chat with no cooldown configured and an LLM that answers with one of
\* six unrelated texts: long runs of commits, to fill the ring and go past
\* its capacity.
RingBehavior ==
    [vision_rate |-> DefaultVisionRate, speech_rate |-> DefaultSpeechRate,
     cooldown |-> 0]

RingEvents == {InputEvent("chat", <<"a">>, <<"u1">>)}

RingTexts == {<<"a">>, <<"b">>, <<"c">>, <<"d">>, <<"e">>, <<"f">>}

InitRing ==
    /\ now = 0
    /\ behavior = RingBehavior
    /\ last_response_time = None
    /\ last_trigger_source = NoSource
    /\ processing_lock = FALSE
    /\ recent_responses = <<>>
    /\ stm = <<>>
    /\ ltm = <<>>
    /\ pc = [c \in Calls |-> "idle"]
    /\ event = [c \in Calls |-> NoEvent]
    /\ is_combo_trigger = [c \in Calls |-> FALSE]
    /\ prompt = [c \in Calls |-> <<>>]
    /\ returned = Return(0, Null)
    /\ log = LogLine("", "", <<>>, FALSE)
    /\ ncalls = 0
    /\ entered = Entered(0, NoEvent)
    /\ replied = Replied(0, FALSE, <<>>)
    /\ committed = <<>>
    /\ NoOrchestrator
    /\ NoObjects

NextRing ==
    \/ \E c \in Calls, e \in RingEvents : Begin(c, e, 0, MaxRingCalls)
    \/ \E c \in Calls, text \in RingTexts : LlmReturns(c, text)

SpecRing == InitRing /\ [][NextRing]_vars

\* --------------------------------------------------------- orchestrator
\* The main loop of the Orchestrator around brain.process(), with a memory
\* layer (embedding function, vector store) that can raise at each of its
\* uses inside process().

\* process() left by an exception
Raised == [kind |-> "Raised", text |-> <<>>]

\* f"[Scene observation] "
SceneTag ==
    <<"[", "S", "c", "e", "n", "e", " ", "o", "b", "s", "e", "r", "v", "a",
      "t", "i", "o", "n", "]", " ">>

\* _process_vision_batch: the synthetic event made of the latest description,
\* with metadata {"batch_size": len(vision_events)}
BatchEvent(buffer) ==
    [source |-> "vision", content |-> SceneTag \o buffer[Len(buffer)],
     users |-> <<>>, batch_size |-> Len(buffer)]

LoopBehavior ==
    [vision_rate |-> 100, speech_rate |-> DefaultSpeechRate, cooldown |-> 0]

LoopEvents ==
    {InputEvent("chat", <<"a", "b">>, <<"u1">>),
     InputEvent("vision", <<"a">>, <<>>)}

LoopTexts == {<<"a">>}

\* the calls of brain.process() made by _main_loop
Calling == {"process", "batch_full", "batch_timeout"}

InitLoop ==
    /\ now = 0
    /\ behavior = LoopBehavior
    /\ last_response_time = None
    /\ last_trigger_source = NoSource
    /\ processing_lock = FALSE
    /\ recent_responses = <<>>
    /\ stm = <<>>
    /\ ltm = <<>>
    /\ pc = [c \in Calls |-> "idle"]
    /\ event = [c \in Calls |-> NoEvent]
    /\ is_combo_trigger = [c \in Calls |-> FALSE]
    /\ prompt = [c \in Calls |-> <<>>]
    /\ returned = Return(0, Null)
    /\ log = LogLine("", "", <<>>, FALSE)
    /\ ncalls = 0
    /\ entered = Entered(0, NoEvent)
    /\ replied = Replied(0, FALSE, <<>>)
    /\ committed = <<>>
    /\ input_queue = <<>>
    /\ output_queue = <<>>
    /\ running = TRUE
    /\ vision_buffer = <<>>
    /\ loop_pc = "get"
    /\ loop_event = NoEvent
    /\ loop_calls = 0
    /\ loop_errors = 0
    /\ memory_errors = 0
    /\ NoObjects

\* an input processor puts an event on the queue
Enqueue(e) ==
    /\ running
    /\ Len(input_queue) < MaxQueue
    /\ input_queue' = Append(input_queue, e)
    /\ UNCHANGED <<brain, objects, output_queue, running, vision_buffer, loop_pc,
                   loop_event, loop_calls, loop_errors,
                   memory_errors>>

\* wait_for(input_queue.get()) delivers an event: buffered if it is a vision
\* event, passed to brain.process otherwise
LoopGet ==
    LET e == Head(input_queue)
        buffer == Append(vision_buffer, e.content)
    IN  /\ running
        /\ loop_pc = "get"
        /\ input_queue # <<>>
        /\ input_queue' = Tail(input_queue)
        /\ loop_calls' = ncalls
        /\ IF e.source = "vision"
           THEN /\ vision_buffer' = buffer
                /\ IF Len(buffer) >= VisionBatchSize
                   THEN /\ loop_pc' = "batch_full"
                        /\ loop_event' = BatchEvent(buffer)
                   ELSE UNCHANGED <<loop_pc, loop_event>>
           ELSE /\ loop_pc' = "process"
                /\ loop_event' = e
                /\ UNCHANGED vision_buffer
        /\ UNCHANGED <<brain, objects, output_queue, running, loop_errors, memory_errors>>

\* wait_for times out with the buffer due for a flush
LoopTimeout ==
    /\ running
    /\ loop_pc = "get"
    /\ input_queue = <<>>
    /\ vision_buffer # <<>>
    /\ loop_pc' = "batch_timeout"
    /\ loop_event' = BatchEvent(vision_buffer)
    /\ loop_calls' = ncalls
    /\ UNCHANGED <<brain, objects, input_queue, output_queue, running, vision_buffer,
                   loop_errors, memory_errors>>

\* the call made by _main_loop has not begun
LoopCalls == loop_pc \in Calling /\ ncalls = loop_calls

\* the call made by _main_loop is over
LoopCallOver ==
    /\ loop_pc \in Calling
    /\ ncalls = loop_calls + 1
    /\ \A c \in Calls : pc[c] = "idle"

\* brain.process returned: the response is queued, a flushed buffer cleared
LoopReturn ==
    /\ LoopCallOver
    /\ returned.value # Raised
    /\ loop_pc' = "get"
    /\ loop_event' = NoEvent
    /\ output_queue' = IF returned.value.kind = "OutputEvent"
                       THEN Append(output_queue, returned.value)
                       ELSE output_queue
    /\ vision_buffer' = IF loop_pc = "process" THEN vision_buffer ELSE <<>>
    /\ UNCHANGED <<brain, objects, input_queue, running, loop_calls, loop_errors, memory_errors>>

\* the loop left by the exception
LoopCrash ==
    /\ LoopCallOver
    /\ returned.value = Raised
    /\ loop_pc' = "stopped"
    /\ loop_event' = NoEvent
    /\ loop_errors' = loop_errors + 1
    /\ UNCHANGED <<brain, objects, input_queue, output_queue, running, vision_buffer,
                   loop_calls, memory_errors>>

\* brain.process raised: except Exception logs main_loop_error and the loop
\* goes round; a buffer being flushed is not cleared
LoopCatch ==
    /\ LoopCallOver
    /\ returned.value = Raised
    /\ loop_pc' = "get"
    /\ loop_event' = NoEvent
    /\ loop_errors' = loop_errors + 1
    /\ UNCHANGED <<brain, objects, input_queue, output_queue, running, vision_buffer,
                   loop_calls, memory_errors>>

\* process(): ltm.add_memory raises inside process_input, after the
\* short-term write and before any gate
RecordRaises(c, e, limit) ==
    LET user == IF e.users # <<>> THEN e.users[1] ELSE NoUser
    IN  /\ Free(c)
        /\ ncalls < limit
        /\ ShouldSaveToLtm(e.content)
        /\ ncalls' = ncalls + 1
        /\ entered' = Entered(c, e)
        /\ stm' = StmAdd(stm, StmCapacity, MemoryEntry("user", e.content, e.source, user))
        /\ returned' = Return(c, Raised)
        /\ memory_errors' = memory_errors + 1
        /\ UNCHANGED <<now, behavior, gating, processing_lock, ltm, pc, event,
                       is_combo_trigger, prompt, log, replied, committed>>
        /\ UNCHANGED <<objects, input_queue, output_queue, running, vision_buffer,
                       loop_pc, loop_event, loop_calls, loop_errors>>

\* process(): the gates are passed and ltm.retrieve raises inside
\* build_messages; the finally clause releases the flag
AssembleRaises(c, e, roll, limit) ==
    LET user == IF e.users # <<>> THEN e.users[1] ELSE NoUser
        mem == ProcessInput(stm, ltm, e.content, e.source, user, "user")
        combo == IsCombo(e)
    IN  /\ Free(c)
        /\ ncalls < limit
        /\ combo \/ ShouldRespond(e, roll)
        /\ ~CooldownRejects(combo)
        /\ ~BusyRejects
        /\ ncalls' = ncalls + 1
        /\ entered' = Entered(c, e)
        /\ stm' = mem[1]
        /\ ltm' = mem[2]
        /\ processing_lock' = FALSE
        /\ returned' = Return(c, Raised)
        /\ memory_errors' = memory_errors + 1
        /\ UNCHANGED <<now, behavior, gating, pc, event, is_combo_trigger,
                       prompt, log, replied, committed>>
        /\ UNCHANGED <<objects, input_queue, output_queue, running, vision_buffer,
                       loop_pc, loop_event, loop_calls, loop_errors>>

\* the error of process_response leaves process() without the finally clause
StoreRaisesLockHeld(c, text) ==
    /\ pc[c] = "awaiting"
    /\ ~IsRepetitive(text, recent_responses)
    /\ Finish(c)
    /\ replied' = Replied(c, FALSE, text)
    /\ stm' = StmAddAssistantMessage(stm, StmCapacity, text)
    /\ returned' = Return(c, Raised)
    /\ memory_errors' = memory_errors + 1
    /\ UNCHANGED <<now, behavior, gating, processing_lock, ltm, log, ncalls,
                   entered, committed>>
    /\ UNCHANGED <<objects, input_queue, output_queue, running, vision_buffer,
                   loop_pc, loop_event, loop_calls, loop_errors>>

\* process(): the LLM returned a fresh text and ltm.add_memory raises inside
\* process_response, after the short-term write; lines 322-324 are not run
StoreRaises(c, text) ==
    /\ pc[c] = "awaiting"
    /\ ~IsRepetitive(text, recent_responses)
    /\ Finish(c)
    /\ processing_lock' = FALSE
    /\ replied' = Replied(c, FALSE, text)
    /\ stm' = StmAddAssistantMessage(stm, StmCapacity, text)
    /\ returned' = Return(c, Raised)
    /\ memory_errors' = memory_errors + 1
    /\ UNCHANGED <<now, behavior, gating, ltm, log, ncalls, entered, committed>>
    /\ UNCHANGED <<objects, input_queue, output_queue, running, vision_buffer,
                   loop_pc, loop_event, loop_calls, loop_errors>>

\* process(): the response is committed and ltm.count raises inside
\* get_memory_stats
StatsRaise(c, text) ==
    LET mem == ProcessResponse(stm, ltm, text)
    IN  /\ pc[c] = "awaiting"
        /\ ~IsRepetitive(text, recent_responses)
        /\ Finish(c)
        /\ processing_lock' = FALSE
        /\ replied' = Replied(c, FALSE, text)
        /\ stm' = mem[1]
        /\ ltm' = mem[2]
        /\ last_response_time' = <<now>>
        /\ last_trigger_source' = event[c].source
        /\ recent_responses' = RecentAppend(recent_responses, text)
        /\ committed' = Append(committed,
                               [text |-> text, source |-> event[c].source,
                                time |-> now, combo |-> is_combo_trigger[c]])
        /\ returned' = Return(c, Raised)
        /\ memory_errors' = memory_errors + 1
        /\ UNCHANGED <<now, behavior, log, ncalls, entered>>
        /\ UNCHANGED <<objects, input_queue, output_queue, running, vision_buffer,
                       loop_pc, loop_event, loop_calls, loop_errors>>

\* brain.process(event), called by _main_loop
Process(c) ==
    /\ LoopCalls
    /\ Begin(c, loop_event, 0, MaxLoopCalls)

ProcessRecordRaises(c) ==
    /\ LoopCalls
    /\ RecordRaises(c, loop_event, MaxLoopCalls)

ProcessAssembleRaises(c) ==
    /\ LoopCalls
    /\ AssembleRaises(c, loop_event, 0, MaxLoopCalls)

NextLoop ==
    \/ \E e \in LoopEvents : Enqueue(e)
    \/ LoopGet
    \/ LoopTimeout
    \/ \E c \in Calls : Process(c)
    \/ \E c \in Calls : ProcessRecordRaises(c)
    \/ \E c \in Calls : ProcessAssembleRaises(c)
    \/ \E c \in Calls, text \in LoopTexts : LlmReturns(c, text)
    \/ \E c \in Calls : LlmRaises(c)
    \/ \E c \in Calls, text \in LoopTexts : StoreRaises(c, text)
    \/ \E c \in Calls, text \in LoopTexts : StatsRaise(c, text)
    \/ LoopReturn
    \/ LoopCatch

SpecLoop == InitLoop /\ [][NextLoop]_vars

\* The main loop fed with two different vision samples, to tell the latest
\* sample of a batch from the others.
BatchSamples ==
    {InputEvent("chat", <<"a", "b">>, <<"u1">>),
     InputEvent("vision", <<"a">>, <<>>),
     InputEvent("vision", <<"c">>, <<>>)}

ProcessBatch(c) ==
    /\ LoopCalls
    /\ Begin(c, loop_event, 0, MaxBatchCalls)

ProcessBatchRaises(c) ==
    /\ LoopCalls
    /\ RecordRaises(c, loop_event, MaxBatchCalls)

NextBatch ==
    \/ \E e \in BatchSamples : Enqueue(e)
    \/ LoopGet
    \/ LoopTimeout
    \/ \E c \in Calls : ProcessBatch(c)
    \/ \E c \in Calls : ProcessBatchRaises(c)
    \/ \E c \in Calls, text \in LoopTexts : LlmReturns(c, text)
    \/ \E c \in Calls : LlmRaises(c)
    \/ LoopReturn
    \/ LoopCatch

SpecBatch == InitLoop /\ [][NextBatch]_vars

\* ------------------------------------------------- ShortTermMemory alone
\* A ShortTermMemory of any capacity up to MaxCapacity, and any sequence of
\* up to MaxAdds calls of add.

StmEntries ==
    {MemoryEntry("user", <<"a">>, "chat", "u1"),
     MemoryEntry("user", <<"b">>, "speech", NoUser),
     MemoryEntry("user", <<"c">>, "vision", NoUser),
     MemoryEntry("assistant", <<"d">>, NoSource, NoUser)}

\* get_recent(): list(self._memory)
GetRecentAll(deque) == deque

\* no PersonaBrain is constructed
NoBrain ==
    /\ now = 0
    /\ behavior = RingBehavior
    /\ last_response_time = None
    /\ last_trigger_source = NoSource
    /\ processing_lock = FALSE
    /\ recent_responses = <<>>
    /\ stm = <<>>
    /\ ltm = <<>>
    /\ pc = [c \in Calls |-> "idle"]
    /\ event = [c \in Calls |-> NoEvent]
    /\ is_combo_trigger = [c \in Calls |-> FALSE]
    /\ prompt = [c \in Calls |-> <<>>]
    /\ returned = Return(0, Null)
    /\ log = LogLine("", "", <<>>, FALSE)
    /\ ncalls = 0
    /\ entered = Entered(0, NoEvent)
    /\ replied = Replied(0, FALSE, <<>>)
    /\ committed = <<>>

\* ShortTermMemory(max_size)
InitStm ==
    /\ memory = <<>>
    /\ max_size \in 0..MaxCapacity
    /\ added = <<>>
    /\ NoBrain
    /\ NoOrchestrator
    /\ NoLongTermMemory
    /\ NoParts

\* add(role, content, source, user)
Add(entry) ==
    /\ Len(added) < MaxAdds
    /\ memory' = StmAdd(memory, max_size, entry)
    /\ added' = Append(added, entry)
    /\ UNCHANGED <<max_size, brain, loopvars, ltmvars, parts>>

NextStm == \E entry \in StmEntries : Add(entry)

SpecStm == InitStm /\ [][NextStm]_vars

\* -------------------------------------------------- LongTermMemory alone
\* A LongTermMemory with its embedding function and its vector store.  The
\* embedding function is a function of the text; vectors are named by
\* numbers and CosineDistance gives their distances in hundredths.  The
\* store answers a query with the k nearest records, in an order that is
\* left open here, and either ignores or refuses the add of an id it holds.

LtmContents == {<<"a", "b">>, <<"c", "d">>, <<"a">>}

\* hash(content), one value per text for the life of the process
RawHash(content) ==
    CASE content = <<"a", "b">> -> 10042
      [] content = <<"c", "d">> -> 20042
      [] OTHER -> 31337

\* _generate_embedding
GenerateEmbedding(text) ==
    CASE text = <<"a", "b">> -> 1
      [] text = <<"c", "d">> -> 1
      [] OTHER -> 2

\* the cosine distance of two vectors
CosineDistance(u, v) ==
    IF u = v THEN 0 ELSE 150

\* f"{timestamp}_{hash(content) % 10000:04d}"
MemoryId(timestamp, content) == <<timestamp, RawHash(content) % HashModulus>>

Ids(coll) == {coll[i].id : i \in 1..Len(coll)}

\* every content admitted
AdmitsAll(content, force) == TRUE

\* not (not force and not should_save_to_ltm(content))
Admits(content, force) == force \/ ShouldSaveToLtm(content)

InitLtm ==
    /\ collection = <<>>
    /\ clock = 0
    /\ ltm_call = NoCall
    /\ NoBrain
    /\ NoOrchestrator
    /\ NoShortTermMemory
    /\ NoParts

\* add_memory(content, source, user, role, force = force)
AddMemory(content, source, user, role, force) ==
    LET memory_id == MemoryId(clock, content)
        record == [id        |-> memory_id,
                   embedding |-> GenerateEmbedding(content),
                   content   |-> content,
                   timestamp |-> clock,
                   source    |-> IF source = NoSource THEN "unknown" ELSE source,
                   user      |-> IF user = NoUser THEN "" ELSE user,
                   role      |-> role,
                   force     |-> force]
        call == [NoCall EXCEPT !.op = "add_memory", !.content = content,
                               !.force = force, !.count = Len(collection)]
    IN  /\ Len(collection) < MaxRecords
        /\ IF ~Admits(content, force)
           THEN /\ ltm_call' = call
                /\ UNCHANGED collection
           ELSE IF memory_id \in Ids(collection)
           THEN /\ UNCHANGED collection
                /\ \E refused \in BOOLEAN :
                      ltm_call' = [call EXCEPT !.memory_id = memory_id,
                                               !.saved = ~refused,
                                               !.raised = refused]
           ELSE /\ collection' = Append(collection, record)
                /\ ltm_call' = [call EXCEPT !.memory_id = memory_id,
                                            !.saved = TRUE]
        /\ UNCHANGED <<clock, stmvars, brain, loopvars, parts>>

\* the sets of k records nearest to the query vector
NearestSets(coll, q, k) ==
    {S \in SUBSET (1..Len(coll)) :
        /\ Cardinality(S) = k
        /\ \A i \in S : \A j \in (1..Len(coll)) \ S :
              CosineDistance(q, coll[i].embedding)
                <= CosineDistance(q, coll[j].embedding)}

Orderings(S) ==
    {f \in [1..Cardinality(S) -> S] :
        \A i, j \in 1..Cardinality(S) : i # j => f[i] # f[j]}

\* _collection.query(query_embeddings = [q], n_results = k): the answers the
\* store can give, each a sequence of positions in the collection
Query(coll, q, k) == UNION {Orderings(S) : S \in NearestSets(coll, q, k)}

\* relevance = 1 - distance
Relevance(distance) == 100 - distance

Abs(x) == IF x < 0 THEN 0 - x ELSE x

\* the filter applied to the magnitude of the relevance
KeptByMagnitude(relevance, min_relevance) == ~(Abs(relevance) < min_relevance)

\* not (relevance < min_relevance)
Kept(relevance, min_relevance) == ~(relevance < min_relevance)

\* rank: the place of the record in the answer of the store
LTMResult(record, relevance, rank) ==
    [content         |-> record.content,
     timestamp       |-> record.timestamp,
     source          |-> record.source,
     user            |-> IF record.user = "" THEN NoUser ELSE record.user,
     relevance_score |-> relevance,
     rank            |-> rank]

\* a sort that puts an element before the elements of equal relevance
RECURSIVE SortUnstable(_)
SortUnstable(results) ==
    IF results = <<>> THEN <<>>
    ELSE LET x == results[Len(results)]
             sorted == SortUnstable(SubSeq(results, 1, Len(results) - 1))
             n == Cardinality({i \in 1..Len(sorted) :
                                  sorted[i].relevance_score > x.relevance_score})
         IN  SubSeq(sorted, 1, n) \o <<x>> \o SubSeq(sorted, n + 1, Len(sorted))

\* ltm_results.sort(key = relevance_score, reverse = True): stable
RECURSIVE SortByRelevance(_)
SortByRelevance(results) ==
    IF results = <<>> THEN <<>>
    ELSE LET x == results[Len(results)]
             sorted == SortByRelevance(SubSeq(results, 1, Len(results) - 1))
             n == Cardinality({i \in 1..Len(sorted) :
                                  sorted[i].relevance_score >= x.relevance_score})
         IN  SubSeq(sorted, 1, n) \o <<x>> \o SubSeq(sorted, n + 1, Len(sorted))

\* the store is taken to hold records whatever its count
IsEmptyNever(count) == FALSE

\* self._collection.count() == 0
IsEmpty(count) == count = 0

NResults == {0, 1, DefaultNResults}

Thresholds == {0 - 100, DefaultMinRelevance}

\* retrieve(query, n_results, min_relevance)
Retrieve(query, n_results, min_relevance) ==
    LET count == Len(collection)
        k == Min(n_results, count)
        q == GenerateEmbedding(query)
        call == [NoCall EXCEPT !.op = "retrieve", !.content = query,
                               !.n_results = n_results,
                               !.min_relevance = min_relevance,
                               !.count = count]
        candidate(order, i) ==
            [content  |-> collection[order[i]].content,
             distance |-> CosineDistance(q, collection[order[i]].embedding)]
        result(order, i) ==
            LTMResult(collection[order[i]],
                      Relevance(CosineDistance(q, collection[order[i]].embedding)),
                      i)
        keep(r) == Kept(r.relevance_score, min_relevance)
    IN  /\ IF IsEmpty(count)
           THEN ltm_call' = call
           ELSE IF k <= 0
           THEN ltm_call' = [call EXCEPT !.queried = TRUE, !.raised = TRUE]
           ELSE \E order \in Query(collection, q, k) :
                   ltm_call' =
                     [call EXCEPT
                        !.queried = TRUE,
                        !.candidates = [i \in 1..k |-> candidate(order, i)],
                        !.value = SortByRelevance(
                                    SelectSeq([i \in 1..k |-> result(order, i)],
                                              keep))]
        /\ UNCHANGED <<collection, clock, stmvars, brain, loopvars, parts>>

\* time passes between two readings of the clock
ClockTick ==
    /\ clock < MaxClock
    /\ clock' = clock + 1
    /\ UNCHANGED <<collection, ltm_call, stmvars, brain, loopvars, parts>>

NextLtm ==
    \/ \E content \in LtmContents : AddMemory(content, "chat", "u1", "user", FALSE)
    \/ \E content \in LtmContents :
          AddMemory(content, NoSource, NoUser, "assistant", TRUE)
    \/ \E query \in LtmContents, n_results \in NResults,
          min_relevance \in Thresholds : Retrieve(query, n_results, min_relevance)
    \/ ClockTick

SpecLtm == InitLtm /\ [][NextLtm]_vars

\* ------------------------------------------------------ should_save_to_ltm
\* should_save_to_ltm applied to the texts of up to MaxWords words, the
\* words separated by one space.

SaveWords ==
    {<<"a">>, <<"o", "k">>, <<"B", "o", "b">>, <<"l", "o", "v", "e">>,
     <<"n", "e", "x", "t">>}

RECURSIVE TextsOf(_)
TextsOf(n) ==
    IF n = 0 THEN {<<>>}
    ELSE LET shorter == TextsOf(n - 1)
         IN  shorter \cup SaveWords
               \cup {t \o <<" ">> \o w : t \in shorter \ {<<>>}, w \in SaveWords}

SaveTexts == TextsOf(MaxWords)

\* the content to come
InitSave ==
    /\ collection = <<>>
    /\ clock = 0
    /\ ltm_call \in {[NoCall EXCEPT !.content = content] : content \in SaveTexts}
    /\ NoBrain
    /\ NoOrchestrator
    /\ NoShortTermMemory
    /\ NoParts

\* should_save_to_ltm(content)
ShouldSave ==
    /\ ltm_call.op = ""
    /\ ltm_call' = [ltm_call EXCEPT !.op = "should_save_to_ltm",
                                    !.verdict = ShouldSaveToLtm(ltm_call.content)]
    /\ UNCHANGED <<collection, clock, stmvars, brain, loopvars, parts>>

NextSave == ShouldSave

SpecSave == InitSave /\ [][NextSave]_vars

\* ------------------------------------------------- ContextAssembler alone
\* build_messages applied to every short-term memory of up to MaxEntries
\* entries.  A text is a sequence of strings, the text being their
\* concatenation: the contents are sequences of characters as above, and
\* each literal part of an f-string is one string.  What ltm.retrieve
\* answers and what the compression service does are inputs of the call.

BuildEntries ==
    {MemoryEntry("assistant", <<"d">>, NoSource, NoUser),
     MemoryEntry("user", <<"c">>, "vision", NoUser),
     MemoryEntry("user", <<"b">>, "speech", NoUser),
     MemoryEntry("user", <<"a">>, "chat", "u1"),
     MemoryEntry("user", <<"a">>, "chat", NoUser),
     MemoryEntry("user", <<"e">>, "donation", NoUser)}

RECURSIVE EntriesOf(_)
EntriesOf(n) ==
    IF n = 0 THEN {<<>>}
    ELSE LET shorter == EntriesOf(n - 1)
         IN  shorter \cup {Append(m, e) : m \in shorter, e \in BuildEntries}

\* "\n".join(parts)
RECURSIVE Join(_, _)
Join(texts, sep) ==
    IF texts = <<>> THEN <<>>
    ELSE IF Len(texts) = 1 THEN texts[1]
    ELSE texts[1] \o <<sep>> \o Join(Tail(texts), sep)

\* the first n entries instead of the last n
GetRecentOldest(deque, n) == SubSeq(deque, 1, Min(n, Len(deque)))

\* get_recent(n): list(self._memory)[-n:]
GetRecent(deque, n) ==
    LET start == IF n > 0
                 THEN IF Len(deque) > n THEN Len(deque) - n ELSE 0
                 ELSE Min(0 - n, Len(deque))
    IN  SubSeq(deque, start + 1, Len(deque))

LtmAnswers ==
    {Answer(<<>>, FALSE),
     Answer(<<[content |-> <<"a">>,
               timestamp |-> <<"2026-01-01", "T10:00:00">>, user |-> "u1"],
              [content |-> <<"d">>, timestamp |-> <<>>, user |-> NoUser]>>,
            FALSE),
     Answer(<<>>, TRUE)}

\* LTMResult.__str__
ResultStr(result) ==
    LET time_str == IF result.timestamp # <<>>
                    THEN <<result.timestamp[1]>>
                    ELSE <<"unknown">>
    IN  IF result.user # NoUser
        THEN <<"[">> \o time_str \o <<"] ", result.user, ": ">> \o result.content
        ELSE <<"[">> \o time_str \o <<"] ">> \o result.content

\* get_formatted_context, from the results of retrieve
GetFormattedContext(results) ==
    IF results = <<>> THEN <<>>
    ELSE Join(<<<<"Relevant past context:">>>>
                \o [i \in 1..Len(results) |-> <<"- ">> \o ResultStr(results[i])],
              "\n")

\* the system prompt without the long-term context
GetFullSystemPromptBare(system_prompt, ltm_context) == system_prompt

\* AssembledContext.get_full_system_prompt
GetFullSystemPrompt(system_prompt, ltm_context) ==
    IF ltm_context # <<>>
    THEN system_prompt \o <<"\n\n">> \o ltm_context
    ELSE system_prompt

\* not text.strip()
IsBlank(text) == \A i \in 1..Len(text) : text[i] \in {" ", "\n", "\n\n"}

CompressErrors ==
    {"AuthenticationError", "RateLimitError", "InvalidRequestError",
     "APIError", "Exception"}

\* what client.compress_input does: it returns an output or raises
CompressOutcomes == {"ok"} \cup CompressErrors

\* response.output
CompressedText == <<"You're Pickle">>

\* compress() without its last handler
CaughtListed == CompressErrors \ {"Exception"}

\* the errors that the handlers of compress() catch
Caught == CompressErrors

\* TokenCompressor.compress(text): the CompressResult, the enabled flag
\* after the call, and whether an error leaves the call
Compress(self, text, outcome) ==
    IF ~self.enabled \/ ~self.client \/ IsBlank(text)
    THEN [text |-> text, was_compressed |-> FALSE, enabled |-> self.enabled,
          called |-> FALSE, raised |-> FALSE]
    ELSE IF outcome = "ok"
    THEN [text |-> CompressedText, was_compressed |-> TRUE,
          enabled |-> self.enabled, called |-> TRUE, raised |-> FALSE]
    ELSE IF outcome \in Caught
    THEN [text |-> text, was_compressed |-> FALSE,
          enabled |-> self.enabled /\ outcome # "AuthenticationError",
          called |-> TRUE, raised |-> FALSE]
    ELSE [text |-> text, was_compressed |-> FALSE, enabled |-> self.enabled,
          called |-> TRUE, raised |-> TRUE]

\* one line of the context, by role and source of the entry
RenderEntry(entry) ==
    IF entry.role = "assistant"
    THEN <<"[You previously said]: ">> \o entry.content
    ELSE IF entry.source = "vision"
    THEN <<"[What you see on stream]: ">> \o entry.content
    ELSE IF entry.source = "speech"
    THEN <<"[Streamer said]: ">> \o entry.content
    ELSE IF entry.source = "chat"
    THEN <<"[Chat from ", IF entry.user # NoUser THEN entry.user ELSE "viewer",
           "]: ">> \o entry.content
    ELSE <<"[Input]: ">> \o entry.content

CurrentTag == "\n[CURRENT CHAT MESSAGE TO VOICE]: "

Instruction ==
    "Now rephrase this chat message as speech directed at the streamer (convert he/she to you):"

\* user_context: the recent entries, then the current input
UserContext(recent, current_input) ==
    Join([i \in 1..Len(recent) |-> RenderEntry(recent[i])]
           \o << <<CurrentTag>> \o current_input, <<Instruction>> >>,
         "\n")

Message(role, content) == [role |-> role, content |-> content]

\* the recent entries emitted as messages of their own roles
MessagesWithTurns(full_system_prompt, user_context, recent) ==
    <<Message("system", full_system_prompt)>>
      \o [i \in 1..Len(recent) |-> Message(recent[i].role, recent[i].content)]
      \o <<Message("user", user_context)>>

\* the list returned by build_messages
Messages(full_system_prompt, user_context, recent) ==
    <<Message("system", full_system_prompt), Message("user", user_context)>>

SystemPrompts == {<<"You are Pickle.">>}

Inputs == {<<"h", "i">>}

Compressors ==
    {None, <<[enabled |-> TRUE, client |-> TRUE]>>,
     <<[enabled |-> FALSE, client |-> FALSE]>>}

\* ContextAssembler(stm, ltm, compressor, stm_message_count)
InitBuild ==
    /\ memory \in EntriesOf(MaxEntries)
    /\ max_size = MaxEntries
    /\ added = memory
    /\ stm_message_count \in 1..MaxCount
    /\ compressor \in Compressors
    /\ build = NoBuild
    /\ NoBrain
    /\ NoOrchestrator
    /\ NoLongTermMemory
    /\ NoLlmClient
    /\ NoUpdate
    /\ NoExtras
    /\ NoTimer
    /\ NoOutput

\* build_messages(current_input, system_prompt, compress)
BuildMessages(current_input, system_prompt, compress, answer, outcome) ==
    LET call == [NoBuild EXCEPT !.op = "build_messages",
                                !.current_input = current_input,
                                !.system_prompt = system_prompt,
                                !.answer = answer, !.compress = compress]
        ltm_context == GetFormattedContext(answer.results)
        full_system_prompt == GetFullSystemPrompt(system_prompt, ltm_context)
        attempted == compress /\ compressor # None
        result == Compress(compressor[1], full_system_prompt, outcome)
        recent == GetRecent(memory, stm_message_count)
        user_context == UserContext(recent, current_input)
    IN  /\ IF answer.raised
           THEN /\ build' = [call EXCEPT !.raised = TRUE]
                /\ UNCHANGED compressor
           ELSE IF ~attempted
           THEN /\ build' = [call EXCEPT !.messages =
                                Messages(full_system_prompt, user_context, recent)]
                /\ UNCHANGED compressor
           ELSE /\ compressor' = <<[compressor[1] EXCEPT !.enabled = result.enabled]>>
                /\ build' =
                     LET made == [call EXCEPT !.outcome =
                                     IF result.called THEN outcome ELSE "skipped"]
                     IN  IF result.raised THEN [made EXCEPT !.raised = TRUE]
                         ELSE [made EXCEPT !.messages =
                                 Messages(IF result.was_compressed
                                          THEN result.text
                                          ELSE full_system_prompt,
                                          user_context, recent)]
        /\ UNCHANGED <<stm_message_count, stmvars, ltmvars, llmvars,
                       personavars, timevars, outvars, brain,
                       loopvars,
                   extras>>

\* the compression service is reached only by a compressor that is enabled
NextBuild ==
    \E current_input \in Inputs, system_prompt \in SystemPrompts,
       compress \in BOOLEAN, answer \in LtmAnswers :
        \E outcome \in IF compress /\ ~answer.raised /\ compressor # None
                           /\ compressor[1].enabled
                        THEN CompressOutcomes ELSE {"ok"} :
            BuildMessages(current_input, system_prompt, compress, answer, outcome)

SpecBuild == InitBuild /\ [][NextBuild]_vars

\* ------------------------------------------- the main loop and the clock
\* _main_loop with the time of the event loop, in whole seconds, and a brain
\* whose process() returns; the clock stops counting at the batch timeout.

FlushEvents ==
    {InputEvent("chat", <<"a", "b">>, <<"u1">>),
     InputEvent("vision", <<"a">>, <<>>)}

InitFlush ==
    /\ input_queue = <<>>
    /\ output_queue = <<>>
    /\ running = TRUE
    /\ vision_buffer = <<>>
    /\ loop_pc = "get"
    /\ loop_event = NoEvent
    /\ loop_calls = 0
    /\ loop_errors = 0
    /\ memory_errors = 0
    /\ elapsed = 0
    /\ waited = 0
    /\ NoBrain
    /\ NoShortTermMemory
    /\ NoLongTermMemory
    /\ NoAssembler
    /\ NoLlmClient
    /\ NoUpdate
    /\ NoExtras
    /\ NoOutput

\* a second passes; wait_for does not wait past its timeout
Elapse ==
    /\ loop_pc = "get" => waited < WaitTimeout
    /\ elapsed' = Min(elapsed + 1, VisionBatchTimeout)
    /\ waited' = Min(waited + 1, VisionBatchTimeout)
    /\ UNCHANGED <<brain, loopvars, stmvars, ltmvars, buildvars, llmvars,
                   personavars, outvars,
                   extras>>

\* wait_for(input_queue.get(), timeout=1.0) returns an event
WaitForGet ==
    LET e == Head(input_queue)
        buffer == Append(vision_buffer, e.content)
    IN  /\ running
        /\ loop_pc = "get"
        /\ input_queue # <<>>
        /\ input_queue' = Tail(input_queue)
        /\ waited' = 0
        /\ IF e.source = "vision"
           THEN /\ vision_buffer' = buffer
                /\ IF Len(buffer) >= VisionBatchSize
                   THEN /\ loop_pc' = "batch_full"
                        /\ loop_event' = BatchEvent(buffer)
                   ELSE UNCHANGED <<loop_pc, loop_event>>
           ELSE /\ loop_pc' = "process"
                /\ loop_event' = e
                /\ UNCHANGED vision_buffer
        /\ UNCHANGED <<brain, stmvars, ltmvars, buildvars, llmvars, personavars,
                       outvars, elapsed, output_queue, running, loop_calls, loop_errors,
                       memory_errors,
                   extras>>

\* wait_for raises TimeoutError: the buffer is flushed if it is due
WaitForTimeout ==
    /\ running
    /\ loop_pc = "get"
    /\ input_queue = <<>>
    /\ waited >= WaitTimeout
    /\ waited' = 0
    /\ IF vision_buffer # <<>> /\ elapsed >= VisionBatchTimeout
       THEN /\ loop_pc' = "batch_timeout"
            /\ loop_event' = BatchEvent(vision_buffer)
       ELSE UNCHANGED <<loop_pc, loop_event>>
    /\ UNCHANGED <<brain, stmvars, ltmvars, buildvars, llmvars, personavars,
                   outvars, elapsed, input_queue, output_queue, running, vision_buffer,
                   loop_calls, loop_errors, memory_errors,
                   extras>>

\* brain.process returns to _main_loop, which goes round
BrainReturns ==
    /\ loop_pc \in Calling
    /\ loop_pc' = "get"
    /\ loop_event' = NoEvent
    /\ waited' = 0
    /\ vision_buffer' = IF loop_pc = "process" THEN vision_buffer ELSE <<>>
    /\ elapsed' = CASE loop_pc = "process"       -> elapsed
                    [] loop_pc = "batch_full"    -> 0
                    [] loop_pc = "batch_timeout" -> waited
    /\ UNCHANGED <<brain, stmvars, ltmvars, buildvars, llmvars, personavars,
                   outvars, input_queue, output_queue, running, loop_calls, loop_errors,
                   memory_errors,
                   extras>>

NextFlush ==
    \/ \E e \in FlushEvents : Enqueue(e)
    \/ WaitForGet
    \/ WaitForTimeout
    \/ BrainReturns
    \/ Elapse

SpecFlush == InitFlush /\ [][NextFlush]_vars

\* the event loop runs the coroutine that is ready, and time passes
FairFlush ==
    /\ SpecFlush
    /\ WF_vars(WaitForGet)
    /\ WF_vars(WaitForTimeout)
    /\ WF_vars(BrainReturns)
    /\ WF_vars(Elapse)

\* ------------------------------------------- the main loop and the sinks
\* _main_loop fed with chat events, with a brain whose process() returns None
\* or an OutputEvent or raises, _output_loop, and the handle() tasks that
\* gather makes for the TTS and the avatar.

OutputFeed == {InputEvent("chat", <<"a", "b">>, <<"u1">>)}

OutputTexts == {<<"a">>, <<"c">>}

\* what brain.process() gives to _main_loop
Outcomes == {Null, Raised} \cup {OutputEvent(text) : text \in OutputTexts}

InitOutput ==
    /\ input_queue = <<>>
    /\ output_queue = <<>>
    /\ running = TRUE
    /\ vision_buffer = <<>>
    /\ loop_pc = "get"
    /\ loop_event = NoEvent
    /\ loop_calls = 0
    /\ loop_errors = 0
    /\ memory_errors = 0
    /\ NoOutput
    /\ NoBrain
    /\ NoShortTermMemory
    /\ NoLongTermMemory
    /\ NoAssembler
    /\ NoLlmClient
    /\ NoUpdate
    /\ NoExtras
    /\ NoTimer

\* an input processor puts a chat event on the queue and wait_for returns it
\* to _main_loop, which passes it to brain.process
Dispatch(e) ==
    /\ running
    /\ loop_pc = "get"
    /\ ncalls < MaxOutputs
    /\ loop_pc' = "process"
    /\ loop_event' = e
    /\ loop_calls' = ncalls
    /\ UNCHANGED <<brain, objects, input_queue, output_queue, running,
                   vision_buffer, loop_errors, memory_errors>>

\* the call of brain.process made by _main_loop is over with this outcome
BrainOutcome(value) ==
    /\ LoopCalls
    /\ ncalls' = ncalls + 1
    /\ returned' = Return(1, value)
    /\ produced' = IF value.kind = "OutputEvent" THEN Append(produced, value)
                   ELSE produced
    /\ UNCHANGED <<now, behavior, gating, processing_lock, stm, ltm, pc, event,
                   is_combo_trigger, prompt, log, entered, replied, committed>>
    /\ UNCHANGED <<loopvars, stmvars, ltmvars, buildvars, llmvars, personavars,
                   timevars, out_pc, sinks, output_errors, taken, handled,
                   extras>>

\* the output read and left on the queue
OutputPeek ==
    /\ running
    /\ out_pc = "get"
    /\ output_queue # <<>>
    /\ taken' = Append(taken, Head(output_queue))
    /\ sinks' = [s \in Sinks |-> Append(sinks[s], "created")]
    /\ out_pc' = "gather"
    /\ UNCHANGED <<brain, stmvars, ltmvars, buildvars, llmvars, personavars,
                   timevars, output_errors, produced, handled,
                   extras>>
    /\ UNCHANGED loopvars

\* wait_for(output_queue.get()) returns an output and gather makes the two
\* handle() tasks
OutputGet ==
    /\ running
    /\ out_pc = "get"
    /\ output_queue # <<>>
    /\ output_queue' = Tail(output_queue)
    /\ taken' = Append(taken, Head(output_queue))
    /\ sinks' = [s \in Sinks |-> Append(sinks[s], "created")]
    /\ out_pc' = "gather"
    /\ UNCHANGED <<brain, stmvars, ltmvars, buildvars, llmvars, personavars,
                   timevars, output_errors, produced, handled,
                   extras>>
    /\ UNCHANGED <<input_queue, running, vision_buffer, loop_pc, loop_event,
                   loop_calls, loop_errors, memory_errors>>

\* the event loop starts the oldest task of the sink: handle(output) is called
SinkStart(s) ==
    /\ \E n \in 1..Len(sinks[s]) :
          /\ sinks[s][n] = "created"
          /\ \A m \in 1..(n - 1) : sinks[s][m] # "created"
          /\ sinks' = [sinks EXCEPT ![s][n] = "running"]
          /\ handled' = [handled EXCEPT ![s] = Append(handled[s], taken[n])]
    /\ UNCHANGED <<brain, loopvars, stmvars, ltmvars, buildvars, llmvars,
                   personavars, timevars, out_pc, output_errors, produced, taken,
                   extras>>

\* handle(output) of the sink returns or raises
SinkFinish(s, raised) ==
    /\ \E n \in 1..Len(sinks[s]) :
          /\ sinks[s][n] = "running"
          /\ sinks' = [sinks EXCEPT ![s][n] = IF raised THEN "raised" ELSE "done"]
    /\ UNCHANGED <<brain, loopvars, stmvars, ltmvars, buildvars, llmvars,
                   personavars, timevars, out_pc, output_errors, produced, taken,
                   handled,
                   extras>>

\* gather returns: both tasks are done
GatherReturns ==
    /\ out_pc = "gather"
    /\ \A s \in Sinks : sinks[s][Len(taken)] = "done"
    /\ out_pc' = "get"
    /\ UNCHANGED <<brain, loopvars, stmvars, ltmvars, buildvars, llmvars,
                   personavars, timevars, sinks, output_errors, produced, taken,
                   handled,
                   extras>>

\* a gather that cancels the other task when one raises
GatherRaisesCancels ==
    /\ out_pc = "gather"
    /\ \E s \in Sinks : sinks[s][Len(taken)] = "raised"
    /\ out_pc' = "get"
    /\ output_errors' = output_errors + 1
    /\ sinks' = [s \in Sinks |->
                   [sinks[s] EXCEPT ![Len(taken)] =
                       IF @ \in {"created", "running"} THEN "cancelled" ELSE @]]
    /\ UNCHANGED <<brain, loopvars, stmvars, ltmvars, buildvars, llmvars,
                   personavars, timevars, produced, taken, handled,
                   extras>>

\* gather raises the exception of a task, the other task goes on; except
\* Exception logs output_loop_error and the loop goes round
GatherRaises ==
    /\ out_pc = "gather"
    /\ \E s \in Sinks : sinks[s][Len(taken)] = "raised"
    /\ out_pc' = "get"
    /\ output_errors' = output_errors + 1
    /\ UNCHANGED sinks
    /\ UNCHANGED <<brain, loopvars, stmvars, ltmvars, buildvars, llmvars,
                   personavars, timevars, produced, taken, handled,
                   extras>>

NextOutput ==
    \/ \E e \in OutputFeed : Dispatch(e)
    \/ \E value \in Outcomes : BrainOutcome(value)
    \/ LoopReturn
    \/ LoopCatch
    \/ OutputGet
    \/ \E s \in Sinks : SinkStart(s)
    \/ \E s \in Sinks, raised \in BOOLEAN : SinkFinish(s, raised)
    \/ GatherReturns
    \/ GatherRaises

SpecOutput == InitOutput /\ [][NextOutput]_vars

\* the event loop runs every coroutine that is ready
FairOutput ==
    /\ SpecOutput
    /\ WF_vars(\E value \in Outcomes : BrainOutcome(value))
    /\ WF_vars(LoopReturn)
    /\ WF_vars(LoopCatch)
    /\ WF_vars(OutputGet)
    /\ \A s \in Sinks : WF_vars(SinkStart(s))
    /\ \A s \in Sinks : WF_vars(\E raised \in BOOLEAN : SinkFinish(s, raised))
    /\ WF_vars(GatherReturns)
    /\ WF_vars(GatherRaises)

\* ------------------------------------------------- update of the persona
\* PersonaSettings with the fields that update_persona and process() read
PersonaSettings(name, streamer_name, personality, style, vision_rate, cooldown) ==
    [name |-> name, streamer_name |-> streamer_name,
     personality |-> personality, style |-> style,
     behavior |-> [vision_rate |-> vision_rate,
                   speech_rate |-> DefaultSpeechRate, cooldown |-> cooldown]]

Settings ==
    {PersonaSettings("Pixel", "Ann", "p1", <<"s1", "s2">>, 0, 0),
     PersonaSettings("Bot", "", "p2", <<>>, 100, 3)}

\* the fields of the persona after update_persona(settings)
Updated(settings) ==
    [name |-> settings.name,
     streamer_name |-> IF settings.streamer_name # ""
                       THEN settings.streamer_name ELSE "the streamer",
     personality |-> settings.personality,
     style |-> settings.style]

\* the update of the persona that leaves its behavior as it was
UpdatePersonaTorn(settings) ==
    /\ persona' = Updated(settings)
    /\ persona_settings' = <<settings>>
    /\ UNCHANGED <<now, behavior, gating, processing_lock, stm, ltm, pc, event,
                   is_combo_trigger, prompt, returned, log, ncalls, entered,
                   replied, committed>>
    /\ UNCHANGED <<loopvars, stmvars, ltmvars, buildvars, llmvars, timevars,
                   outvars,
                   extras>>

\* update_persona(persona_settings): no await, so one step of the event loop
UpdatePersona(settings) ==
    /\ persona' = Updated(settings)
    /\ behavior' = settings.behavior
    /\ persona_settings' = <<settings>>
    /\ UNCHANGED <<now, gating, processing_lock, stm, ltm, pc, event,
                   is_combo_trigger, prompt, returned, log, ncalls, entered,
                   replied, committed>>
    /\ UNCHANGED <<loopvars, stmvars, ltmvars, buildvars, llmvars, timevars,
                   outvars,
                   extras>>

PersonaBehavior ==
    [vision_rate |-> DefaultVisionRate, speech_rate |-> DefaultSpeechRate,
     cooldown |-> 2]

PersonaEvents ==
    {InputEvent("chat", <<"a">>, <<"u1">>),
     InputEvent("vision", <<"a", "b">>, <<>>)}

PersonaTexts == {<<"a">>, <<"c">>}

InitPersona ==
    /\ now = 0
    /\ behavior = PersonaBehavior
    /\ last_response_time = None
    /\ last_trigger_source = NoSource
    /\ processing_lock = FALSE
    /\ recent_responses = <<>>
    /\ stm = <<>>
    /\ ltm = <<>>
    /\ pc = [c \in Calls |-> "idle"]
    /\ event = [c \in Calls |-> NoEvent]
    /\ is_combo_trigger = [c \in Calls |-> FALSE]
    /\ prompt = [c \in Calls |-> <<>>]
    /\ returned = Return(0, Null)
    /\ log = LogLine("", "", <<>>, FALSE)
    /\ ncalls = 0
    /\ entered = Entered(0, NoEvent)
    /\ replied = Replied(0, FALSE, <<>>)
    /\ committed = <<>>
    /\ NoOrchestrator
    /\ NoObjects

NextPersona ==
    \/ \E c \in Calls, e \in PersonaEvents, roll \in Rolls :
          Begin(c, e, roll, MaxPersonaCalls)
    \/ \E c \in Calls, text \in PersonaTexts : LlmReturns(c, text)
    \/ \E c \in Calls : LlmRaises(c)
    \/ Tick
    \/ \E settings \in Settings : UpdatePersona(settings)

SpecPersona == InitPersona /\ [][NextPersona]_vars

\* ------------------------------------------------------- LLMClient alone
\* The content of a reply is a sequence of JSON tokens; an object has at most
\* one member.

StringTokens == {"\"text\"", "\"hi\""}

NumberTokens == {"1"}

Tokens == {"{", "}", ":"} \cup StringTokens \cup NumberTokens

\* the text between the quotes of a string token
Unquote(token) == IF token = "\"text\"" THEN "text" ELSE "hi"

RECURSIVE IsJson(_)
\* json.loads(content) does not raise
IsJson(content) ==
    \/ Len(content) = 1 /\ content[1] \in StringTokens \cup NumberTokens
    \/ content = <<"{", "}">>
    \/ /\ Len(content) >= 5
       /\ content[1] = "{"
       /\ content[2] \in StringTokens
       /\ content[3] = ":"
       /\ content[Len(content)] = "}"
       /\ IsJson(SubSeq(content, 4, Len(content) - 1))

RECURSIVE JsonLoads(_)
\* the value of json.loads(content), written kind first
JsonLoads(content) ==
    IF Len(content) = 1
    THEN IF content[1] \in StringTokens
         THEN <<"str", Unquote(content[1])>>
         ELSE <<"int", content[1]>>
    ELSE IF Len(content) = 2
    THEN <<"dict">>
    ELSE <<"dict", Unquote(content[2])>>
           \o JsonLoads(SubSeq(content, 4, Len(content) - 1))

\* PersonaResponse.model_validate_json(content) does not raise
Validates(content) ==
    /\ IsJson(content)
    /\ Len(content) = 5
    /\ Unquote(content[2]) = "text"
    /\ content[4] \in StringTokens

\* the dictionary {"text": text}
TextDict(text) == <<"dict", "text", "str">> \o text

Apology == "I'm having trouble responding right now."

\* the handler of json.JSONDecodeError
Fallback(content) ==
    TextDict(IF content # <<>> THEN content ELSE <<Apology>>)

Result(value, raised) == [value |-> value, raised |-> raised]

\* chat_completion(messages, response_schema) for a reply of the server with
\* this status, a body that is JSON or not, and this message content
ChatCompletion(status, body, content, response_schema) ==
    IF status # 200 THEN Result(<<>>, "Exception")
    ELSE IF body # "json" THEN Result(Fallback(<<>>), "")
    ELSE IF response_schema
    THEN IF Validates(content)
         THEN Result(TextDict(<<Unquote(content[4])>>), "")
         ELSE Result(<<>>, "ValidationError")
    ELSE IF IsJson(content) THEN Result(JsonLoads(content), "")
    ELSE Result(Fallback(content), "")

RECURSIVE ContentsOf(_)
\* the contents of at most n tokens
ContentsOf(n) ==
    IF n = 0 THEN {<<>>}
    ELSE LET shorter == ContentsOf(n - 1)
         IN  shorter \cup {Append(content, token) :
                             content \in shorter, token \in Tokens}

\* the replies of the server
Replies ==
    {[NoRequest EXCEPT !.status = 200, !.body = "json", !.content = content] :
        content \in ContentsOf(MaxTokens)}
      \cup {[NoRequest EXCEPT !.status = 200, !.body = "invalid"],
            [NoRequest EXCEPT !.status = 500, !.body = "json"]}

\* the reply to come
InitLlm ==
    /\ llm_call \in Replies
    /\ NoAssembler
    /\ NoUpdate
    /\ NoExtras
    /\ NoTimer
    /\ NoOutput
    /\ NoShortTermMemory
    /\ NoLongTermMemory
    /\ NoBrain
    /\ NoOrchestrator

\* get_persona_response(messages)
GetPersonaResponse ==
    /\ llm_call.op = ""
    /\ LET result == ChatCompletion(llm_call.status, llm_call.body,
                                    llm_call.content, TRUE)
       IN  llm_call' = [llm_call EXCEPT !.op = "get_persona_response",
                                        !.value = result.value,
                                        !.raised = result.raised]
    /\ UNCHANGED <<buildvars, personavars, timevars, outvars, stmvars, ltmvars,
                   brain, loopvars,
                   extras>>

\* chat_completion(messages) without a schema
ChatCompletionPlain ==
    /\ llm_call.op = ""
    /\ LET result == ChatCompletion(llm_call.status, llm_call.body,
                                    llm_call.content, FALSE)
       IN  llm_call' = [llm_call EXCEPT !.op = "chat_completion",
                                        !.value = result.value,
                                        !.raised = result.raised]
    /\ UNCHANGED <<buildvars, personavars, timevars, outvars, stmvars, ltmvars,
                   brain, loopvars,
                   extras>>

NextLlm ==
    \/ GetPersonaResponse
    \/ ChatCompletionPlain

SpecLlm == InitLlm /\ [][NextLlm]_vars

\* ------------------------------------------ the main loop and its queue
\* _main_loop fed by several producers, with a brain whose process() returns
\* None or an OutputEvent or raises: which events it passes on, and when.

OrderEvents ==
    {InputEvent("chat", <<"a">>, <<"u1">>),
     InputEvent("chat", <<"c">>, <<"u2">>),
     InputEvent("speech", <<"b">>, <<>>),
     InputEvent("vision", <<"a">>, <<>>)}

OrderOutcomes == {Null, Raised, OutputEvent(<<"a">>)}

InitOrder ==
    /\ input_queue = <<>>
    /\ output_queue = <<>>
    /\ running = TRUE
    /\ vision_buffer = <<>>
    /\ loop_pc = "get"
    /\ loop_event = NoEvent
    /\ loop_calls = 0
    /\ loop_errors = 0
    /\ memory_errors = 0
    /\ queued = <<>>
    /\ passed = <<>>
    /\ NoEmotion
    /\ recent_call = NoRead
    /\ NoOthers
    /\ NoBrain
    /\ NoShortTermMemory
    /\ NoLongTermMemory
    /\ NoAssembler
    /\ NoLlmClient
    /\ NoUpdate
    /\ NoTimer
    /\ NoOutput

\* an input processor calls input_queue.put(e)
Put(e) ==
    /\ running
    /\ Len(queued) < MaxPuts
    /\ input_queue' = Append(input_queue, e)
    /\ queued' = Append(queued, e)
    /\ UNCHANGED <<brain, stmvars, ltmvars, buildvars, llmvars, personavars,
                   timevars, outvars, emotionvars, recent_call, othervars, passed, output_queue, running,
                   vision_buffer, loop_pc, loop_event, loop_calls, loop_errors,
                   memory_errors>>

\* a queue that hands out the event put last
TakeNewest ==
    LET e == input_queue[Len(input_queue)]
        buffer == Append(vision_buffer, e.content)
    IN  /\ running
        /\ loop_pc = "get"
        /\ input_queue # <<>>
        /\ input_queue' = SubSeq(input_queue, 1, Len(input_queue) - 1)
        /\ loop_calls' = ncalls
        /\ IF e.source = "vision"
           THEN /\ vision_buffer' = buffer
                /\ IF Len(buffer) >= VisionBatchSize
                   THEN /\ loop_pc' = "batch_full"
                        /\ loop_event' = BatchEvent(buffer)
                   ELSE UNCHANGED <<loop_pc, loop_event>>
                /\ UNCHANGED passed
           ELSE /\ loop_pc' = "process"
                /\ loop_event' = e
                /\ passed' = Append(passed, e)
                /\ UNCHANGED vision_buffer
        /\ UNCHANGED <<brain, stmvars, ltmvars, buildvars, llmvars, personavars,
                       timevars, outvars, emotionvars, recent_call, othervars, queued, output_queue, running,
                       loop_errors, memory_errors>>

\* wait_for(input_queue.get()) returns the oldest event: a vision event is
\* buffered, any other is passed to brain.process
Take ==
    LET e == Head(input_queue)
        buffer == Append(vision_buffer, e.content)
    IN  /\ running
        /\ loop_pc = "get"
        /\ input_queue # <<>>
        /\ input_queue' = Tail(input_queue)
        /\ loop_calls' = ncalls
        /\ IF e.source = "vision"
           THEN /\ vision_buffer' = buffer
                /\ IF Len(buffer) >= VisionBatchSize
                   THEN /\ loop_pc' = "batch_full"
                        /\ loop_event' = BatchEvent(buffer)
                   ELSE UNCHANGED <<loop_pc, loop_event>>
                /\ UNCHANGED passed
           ELSE /\ loop_pc' = "process"
                /\ loop_event' = e
                /\ passed' = Append(passed, e)
                /\ UNCHANGED vision_buffer
        /\ UNCHANGED <<brain, stmvars, ltmvars, buildvars, llmvars, personavars,
                       timevars, outvars, emotionvars, recent_call, othervars, queued, output_queue, running,
                       loop_errors, memory_errors>>

\* the call of brain.process made by _main_loop is over with this outcome
Served(value) ==
    /\ ncalls < MaxServed
    /\ BrainOutcome(value)

NextOrder ==
    \/ \E e \in OrderEvents : Put(e)
    \/ Take
    \/ LoopTimeout
    \/ \E value \in OrderOutcomes : Served(value)
    \/ LoopReturn
    \/ LoopCatch

SpecOrder == InitOrder /\ [][NextOrder]_vars

\* ------------------------------------------ the emotion-aware PersonaBrain
\* process() of ai-persona's PersonaBrain, called by _main_loop one call at a
\* time.  What the memory keeps of a call is modelled with the assembler; the
\* clock is read as one bit, whether the cooldown has elapsed.

EmotionLists ==
    {<<>>, <<"happy">>, <<"happy", "neutral">>, <<"happy", "sad">>}

\* what the LLM may name as the emotion
LlmEmotions == {"happy", "sad", "angry", "neutral", "Happy", ""}

EmotionTexts == {<<"a">>, <<"c">>}

EmotionContents == {<<"h", "i">>, <<"a", "?">>, <<"P", "i", "p">>}

\* persona.behavior["trigger_words"]
TriggerWords == {<<"p", "i", "p">>}

\* persona.behavior["spontaneous_rate"], in hundredths
SpontaneousRate == 15

\* word in text
Contains(text, word) ==
    \E i \in 1..(Len(text) - Len(word) + 1) :
        SubSeq(text, i, i + Len(word) - 1) = word

\* PersonaResponse(text, emotion)
PersonaResponse(text, emotion) == [text |-> text, emotion |-> emotion]

\* OutputEvent(text, emotion, priority)
EmotionEvent(text, emotion, priority) ==
    [kind |-> "OutputEvent", text |-> text, emotion |-> emotion,
     priority |-> priority]

NoOutputEvent ==
    [kind |-> "None", text |-> <<>>, emotion |-> "", priority |-> 0]

\* _should_respond(event)
ShouldRespondTo(content, roll) ==
    \/ \E trigger \in TriggerWords : Contains(Lower(content), trigger)
    \/ Contains(content, <<"?">>)
    \/ roll < SpontaneousRate

\* _get_priority(event)
GetPriority(content) ==
    IF \E trigger \in TriggerWords : Contains(Lower(content), trigger) THEN 3
    ELSE IF Contains(content, <<"?">>) THEN 2
    ELSE 1

\* the emotion of the LLM passed on as it is
ValidateEmotionNever(emotion, vocabulary) == emotion

\* if emotion not in self.persona.emotions: emotion = "neutral"
ValidateEmotion(emotion, vocabulary) ==
    IF \E i \in 1..Len(vocabulary) : vocabulary[i] = emotion THEN emotion
    ELSE "neutral"

InitEmotion ==
    /\ emotions \in EmotionLists
    /\ emotion_call = NoProcess
    /\ NoOrder
    /\ recent_call = NoRead
    /\ NoOthers
    /\ NoBrain
    /\ NoOrchestrator
    /\ NoShortTermMemory
    /\ NoLongTermMemory
    /\ NoAssembler
    /\ NoLlmClient
    /\ NoUpdate
    /\ NoTimer
    /\ NoOutput

\* process(), from its entry to its first return or to the await of the LLM;
\* cooling: the cooldown has not elapsed since the last response
EmotionBegin(content, roll, cooling) ==
    /\ emotion_call.pc = "idle"
    /\ emotion_call' =
          IF ~ShouldRespondTo(content, roll) \/ (emotion_call.responded /\ cooling)
          THEN [emotion_call EXCEPT !.content = content, !.raised = FALSE,
                                    !.reply = PersonaResponse(<<>>, ""),
                                    !.value = NoOutputEvent]
          ELSE [emotion_call EXCEPT !.pc = "awaiting", !.content = content,
                                    !.raised = FALSE,
                                    !.reply = PersonaResponse(<<>>, ""),
                                    !.value = NoOutputEvent]
    /\ UNCHANGED <<emotions, brain, loopvars, stmvars, ltmvars, buildvars,
                   llmvars, personavars, timevars, outvars, ordervars,
                   recent_call, othervars>>

\* get_persona_response returns: the emotion is validated, the response
\* stored, the OutputEvent returned
EmotionReturns(text, emotion) ==
    /\ emotion_call.pc = "awaiting"
    /\ emotion_call' =
          [emotion_call EXCEPT
              !.pc = "idle",
              !.responded = TRUE,
              !.reply = PersonaResponse(text, emotion),
              !.value = EmotionEvent(text, ValidateEmotion(emotion, emotions),
                                     GetPriority(emotion_call.content))]
    /\ UNCHANGED <<emotions, brain, loopvars, stmvars, ltmvars, buildvars,
                   llmvars, personavars, timevars, outvars, ordervars,
                   recent_call, othervars>>

\* get_persona_response raises: process() returns None
EmotionRaises ==
    /\ emotion_call.pc = "awaiting"
    /\ emotion_call' = [emotion_call EXCEPT !.pc = "idle", !.raised = TRUE]
    /\ UNCHANGED <<emotions, brain, loopvars, stmvars, ltmvars, buildvars,
                   llmvars, personavars, timevars, outvars, ordervars,
                   recent_call, othervars>>

NextEmotion ==
    \/ \E content \in EmotionContents, roll \in Rolls, cooling \in BOOLEAN :
          EmotionBegin(content, roll, cooling)
    \/ \E text \in EmotionTexts, emotion \in LlmEmotions :
          EmotionReturns(text, emotion)
    \/ EmotionRaises

SpecEmotion == InitEmotion /\ [][NextEmotion]_vars

\* ------------------------------------------------ process() and its flag
\* process() called directly, two calls at a time, with a memory layer that
\* can raise at each of its uses and an LLM call that ends: the request has a
\* total timeout (llm_client.py:88).

LockEvents ==
    {InputEvent("chat", <<"a", "b">>, <<"u1">>),
     InputEvent("vision", <<"a">>, <<>>)}

InitLock ==
    /\ now = 0
    /\ behavior = PersonaBehavior
    /\ last_response_time = None
    /\ last_trigger_source = NoSource
    /\ processing_lock = FALSE
    /\ recent_responses = <<>>
    /\ stm = <<>>
    /\ ltm = <<>>
    /\ pc = [c \in Calls |-> "idle"]
    /\ event = [c \in Calls |-> NoEvent]
    /\ is_combo_trigger = [c \in Calls |-> FALSE]
    /\ prompt = [c \in Calls |-> <<>>]
    /\ returned = Return(0, Null)
    /\ log = LogLine("", "", <<>>, FALSE)
    /\ ncalls = 0
    /\ entered = Entered(0, NoEvent)
    /\ replied = Replied(0, FALSE, <<>>)
    /\ committed = <<>>
    /\ NoOrchestrator
    /\ NoObjects

\* the await of the LLM call ends: it returned or raised, and the commit went
\* through or the memory layer raised in it
LlmCallEnds(c) ==
    \/ \E text \in LoopTexts : LlmReturns(c, text)
    \/ LlmRaises(c)
    \/ \E text \in LoopTexts : StoreRaises(c, text)
    \/ \E text \in LoopTexts : StatsRaise(c, text)

NextLock ==
    \/ \E c \in Calls, e \in LockEvents, roll \in Rolls :
          Begin(c, e, roll, MaxLockCalls)
    \/ \E c \in Calls, e \in LockEvents : RecordRaises(c, e, MaxLockCalls)
    \/ \E c \in Calls, e \in LockEvents, roll \in Rolls :
          AssembleRaises(c, e, roll, MaxLockCalls)
    \/ \E c \in Calls : LlmCallEnds(c)
    \/ Tick

SpecLock == InitLock /\ [][NextLock]_vars

\* the LLM request ends within its timeout
FairLock ==
    /\ SpecLock
    /\ \A c \in Calls : WF_vars(LlmCallEnds(c))

\* ------------------------------------------------- chat, vision, vision
\* process() called for chat and vision events with a vision rate that admits
\* no vision event or every one, long enough for two chat responses and the
\* vision events that follow each.

ComboBehaviors ==
    {[vision_rate |-> v, speech_rate |-> DefaultSpeechRate, cooldown |-> 2] :
        v \in {0, 100}}

ComboEvents ==
    {InputEvent("chat", <<"a">>, <<"u1">>),
     InputEvent("vision", <<"a", "b">>, <<>>)}

\* the empty text is never repetitive
ComboTexts == {<<>>, <<"a">>}

InitCombo ==
    /\ now = 0
    /\ behavior \in ComboBehaviors
    /\ last_response_time = None
    /\ last_trigger_source = NoSource
    /\ processing_lock = FALSE
    /\ recent_responses = <<>>
    /\ stm = <<>>
    /\ ltm = <<>>
    /\ pc = [c \in Calls |-> "idle"]
    /\ event = [c \in Calls |-> NoEvent]
    /\ is_combo_trigger = [c \in Calls |-> FALSE]
    /\ prompt = [c \in Calls |-> <<>>]
    /\ returned = Return(0, Null)
    /\ log = LogLine("", "", <<>>, FALSE)
    /\ ncalls = 0
    /\ entered = Entered(0, NoEvent)
    /\ replied = Replied(0, FALSE, <<>>)
    /\ committed = <<>>
    /\ NoOrchestrator
    /\ NoObjects

NextCombo ==
    \/ \E c \in Calls, e \in ComboEvents : Begin(c, e, 0, MaxComboCalls)
    \/ \E c \in Calls, text \in ComboTexts : LlmReturns(c, text)
    \/ \E c \in Calls : LlmRaises(c)
    \/ Tick

SpecCombo == InitCombo /\ [][NextCombo]_vars

\* ------------------------------------------------ ShortTermMemory, read
\* A ShortTermMemory of any capacity up to MaxCapacity, filled by add and read
\* by get_recent with no argument or with any count from 0 upwards.

\* the arguments of get_recent: None or <<n>>
Counts == {None} \cup {<<n>> : n \in 0..(MaxCapacity + 1)}

InitRead ==
    /\ memory = <<>>
    /\ max_size \in 1..MaxCapacity
    /\ added = <<>>
    /\ recent_call = NoRead
    /\ NoOthers
    /\ NoOrder
    /\ NoEmotion
    /\ NoBrain
    /\ NoOrchestrator
    /\ NoLongTermMemory
    /\ NoAssembler
    /\ NoLlmClient
    /\ NoUpdate
    /\ NoTimer
    /\ NoOutput

\* add(role, content, source, user)
AddEntry(entry) ==
    /\ Len(added) < MaxReadAdds
    /\ Add(entry)

\* get_recent(n)
GetRecentCall(n) ==
    /\ recent_call' =
          [called |-> TRUE, n |-> n, deque |-> memory,
           value |-> IF n = None THEN GetRecentAll(memory)
                     ELSE GetRecent(memory, n[1])]
    /\ UNCHANGED <<stmvars, brain, loopvars, ltmvars, buildvars, llmvars,
                   personavars, timevars, outvars, ordervars, emotionvars,
                   othervars>>

NextRead ==
    \/ \E entry \in StmEntries : AddEntry(entry)
    \/ \E n \in Counts : GetRecentCall(n)

SpecRead == InitRead /\ [][NextRead]_vars

\* ---------------------------------------------- the Twitch chat processor

\* the state of everything but the processors modelled on their own
core == <<brain, loopvars, stmvars, ltmvars, buildvars, llmvars, personavars,
          timevars, outvars, ordervars, emotionvars, recent_call>>

NoCore ==
    /\ NoBrain
    /\ NoOrchestrator
    /\ NoShortTermMemory
    /\ NoLongTermMemory
    /\ NoAssembler
    /\ NoLlmClient
    /\ NoUpdate
    /\ NoTimer
    /\ NoOutput
    /\ NoOrder
    /\ NoEmotion
    /\ recent_call = NoRead

\* the chat messages of the sample: two viewers, and the bot's own echo
TwitchMessages ==
    { [user |-> "u1", content |-> <<"a">>, echo |-> FALSE],
      [user |-> "u2", content |-> <<"b">>, echo |-> FALSE],
      [user |-> "u1", content |-> <<"c">>, echo |-> FALSE],
      [user |-> "bot", content |-> <<"d">>, echo |-> TRUE] }

\* the entry of the buffer made of a message (its timestamp is left out)
Buffered(message) == [user |-> message.user, content |-> message.content]

\* "\n".join(f"{m['user']}: {m['content']}" for m in messages)
ChatContent(messages) ==
    Join([i \in 1..Len(messages) |->
             <<messages[i].user, ": ">> \o messages[i].content], "\n")

\* the InputEvent built of a batch
ChatEvent(messages) ==
    [source |-> "chat",
     content |-> ChatContent(messages),
     message_count |-> Len(messages),
     users |-> {messages[i].user : i \in 1..Len(messages)}]

\* the queue the processor puts on, empty while self.queue is None
Batches == IF chat_queue = None THEN <<>> ELSE chat_queue[1]

\* TwitchChatProcessor(...)
InitTwitch ==
    /\ message_buffer = <<>>
    /\ bot_running = FALSE
    /\ chat_queue = None
    /\ received = <<>>
    /\ NoAvatar
    /\ NoContext
    /\ NoCore

\* _flush_buffer() that leaves the batch in the buffer
FlushBufferKeeps(buffer) ==
    /\ IF buffer = <<>> \/ chat_queue = None
       THEN /\ message_buffer' = buffer
            /\ chat_queue' = chat_queue
       ELSE /\ message_buffer' = buffer
            /\ chat_queue' = <<Append(chat_queue[1], ChatEvent(buffer))>>

\* _flush_buffer(), the buffer being the given one: the copy, the clear and
\* the put on the unbounded queue run without a suspension between them
FlushBuffer(buffer) ==
    /\ IF buffer = <<>> \/ chat_queue = None
       THEN /\ message_buffer' = buffer
            /\ chat_queue' = chat_queue
       ELSE /\ message_buffer' = <<>>
            /\ chat_queue' = <<Append(chat_queue[1], ChatEvent(buffer))>>

\* run(queue), up to the start of the bot
RunTwitch ==
    /\ chat_queue = None
    /\ chat_queue' = << <<>> >>
    /\ bot_running' = TRUE
    /\ UNCHANGED <<message_buffer, received, avatarvars, contextvars, core>>

\* event_message(message), called by the started bot
EventMessage(message) ==
    /\ chat_queue # None
    /\ Len(received) < MaxChat
    /\ IF message.echo
       THEN UNCHANGED <<message_buffer, chat_queue, received>>
       ELSE LET buffer == Append(message_buffer, Buffered(message)) IN
            /\ received' = Append(received, Buffered(message))
            /\ IF Len(buffer) >= MaxBatchSize
               THEN FlushBuffer(buffer)
               ELSE /\ message_buffer' = buffer
                    /\ chat_queue' = chat_queue
    /\ UNCHANGED <<bot_running, avatarvars, contextvars, core>>

\* one round of _batch_messages(): the sleep ends, the buffer is flushed
BatchMessages ==
    /\ bot_running
    /\ FlushBuffer(message_buffer)
    /\ UNCHANGED <<bot_running, received, avatarvars, contextvars, core>>

\* stop(): the batch task is cancelled in its sleep
StopTwitch ==
    /\ bot_running
    /\ bot_running' = FALSE
    /\ UNCHANGED <<message_buffer, chat_queue, received, avatarvars,
                   contextvars, core>>

NextTwitch ==
    \/ RunTwitch
    \/ \E message \in TwitchMessages : EventMessage(message)
    \/ BatchMessages
    \/ StopTwitch

SpecTwitch == InitTwitch /\ [][NextTwitch]_vars

\* asyncio.sleep(batch_interval) ends, so that a round of the batch task
\* is run as long as the task is not cancelled
FairTwitch == SpecTwitch /\ WF_vars(BatchMessages)

\* ------------------------------------------------------ the avatar server

\* the websockets of the sample
Clients == {"w1", "w2", "w3"}

\* AvatarProcessor()
InitAvatar ==
    /\ connections = {}
    /\ broadcast_call = NoBroadcast
    /\ NoTwitch
    /\ NoContext
    /\ NoCore

\* broadcast(data), up to its first send: nothing is done without a
\* connection; else the iteration of the set starts, the set having `size`
\* members, and is suspended in the send to its first member.
\* Fields of the call: ws, the client of the running send; todo, the
\* members the iterator has yet to yield; dead, dead_connections; sent, the
\* clients whose send returned; known and stayed, the clients connected at
\* some time and at all times of the call; left, the set at its end
BroadcastBegin ==
    /\ broadcast_call.pc \in {"idle", "done"}
    /\ IF connections = {}
       THEN broadcast_call' =
               [NoBroadcast EXCEPT !.pc = "done", !.outcome = "returned"]
       ELSE \E ws \in connections :
               broadcast_call' =
                  [NoBroadcast EXCEPT !.pc = "sending",
                                      !.ws = ws,
                                      !.todo = connections \ {ws},
                                      !.size = Cardinality(connections),
                                      !.known = connections,
                                      !.stayed = connections]
    /\ UNCHANGED <<connections, twitchvars, contextvars, core>>

\* the awaited ws.send_text(message) returns (ok) or raises, and the loop
\* asks the iterator for its next member: RuntimeError, Set changed size
\* during iteration, when the set has not the size it had at the start,
\* raised outside the try; else the next send, or at the end of the
\* iteration self.connections -= dead_connections
SendEnds(ok) ==
    /\ broadcast_call.pc = "sending"
    /\ LET dead == IF ok THEN broadcast_call.dead
                   ELSE broadcast_call.dead \cup {broadcast_call.ws}
           sent == IF ok THEN broadcast_call.sent \cup {broadcast_call.ws}
                   ELSE broadcast_call.sent
           call == [broadcast_call EXCEPT !.dead = dead, !.sent = sent,
                                          !.ws = ""]
       IN
       IF Cardinality(connections) # broadcast_call.size
       THEN /\ broadcast_call' =
                  [call EXCEPT !.pc = "done", !.outcome = "raised",
                               !.left = connections]
            /\ connections' = connections
       ELSE IF broadcast_call.todo = {}
       THEN /\ connections' = connections \ dead
            /\ broadcast_call' =
                  [call EXCEPT !.pc = "done", !.outcome = "returned",
                               !.left = connections \ dead]
       ELSE /\ \E ws \in broadcast_call.todo :
                  broadcast_call' =
                     [call EXCEPT !.ws = ws,
                                  !.todo = broadcast_call.todo \ {ws}]
            /\ connections' = connections
    /\ UNCHANGED <<twitchvars, contextvars, core>>

\* register(websocket), of a websocket new to the server.  During a
\* broadcast the place of the new member in the table of the set, and the
\* places of the others when the table is resized, decide what the
\* suspended iterator still yields: any of the members
Register(ws) ==
    /\ ws \notin connections
    /\ ws \notin broadcast_call.known \/ broadcast_call.pc # "sending"
    /\ connections' = connections \cup {ws}
    /\ IF broadcast_call.pc = "sending"
       THEN \E todo \in SUBSET (connections \cup {ws}) :
               broadcast_call' =
                  [broadcast_call EXCEPT
                      !.todo = todo,
                      !.known = broadcast_call.known \cup {ws}]
       ELSE broadcast_call' = broadcast_call
    /\ UNCHANGED <<twitchvars, contextvars, core>>

\* unregister(websocket): the member discarded is not yielded any more
Unregister(ws) ==
    /\ ws \in connections
    /\ connections' = connections \ {ws}
    /\ IF broadcast_call.pc = "sending"
       THEN broadcast_call' =
               [broadcast_call EXCEPT
                   !.todo = broadcast_call.todo \ {ws},
                   !.stayed = broadcast_call.stayed \ {ws}]
       ELSE broadcast_call' = broadcast_call
    /\ UNCHANGED <<twitchvars, contextvars, core>>

NextAvatar ==
    \/ BroadcastBegin
    \/ \E ok \in BOOLEAN : SendEnds(ok)
    \/ \E ws \in Clients : Register(ws)
    \/ \E ws \in Clients : Unregister(ws)

SpecAvatar == InitAvatar /\ [][NextAvatar]_vars

\* ---------------------------------------------------- the context manager

\* the sources of the sample, and contents of 1, 5 and MaxContentLen
\* characters
ContextSources == {<<"c", "h", "a", "t">>, <<"s", "p", "e", "e", "c", "h">>}

ContextTexts ==
    {[i \in 1..n |-> "x"] : n \in {1, 5, MaxContentLen}}

\* ContextEntry(role, content, timestamp, source), the timestamp left out
ContextEntry(role, content, source) ==
    [role |-> role, content |-> content, source |-> source]

\* sum(len(e.content) for e in self.entries)
RECURSIVE TotalChars(_)
TotalChars(deque) ==
    IF deque = <<>> THEN 0
    ELSE Len(deque[1].content) + TotalChars(Tail(deque))

\* _count_tokens()
CountTokens(deque) == TotalChars(deque) \div CHARS_PER_TOKEN

\* _trim_to_limit(): popleft while over the limit and more than one entry
RECURSIVE TrimToLimit(_, _)
TrimToLimit(deque, limit) ==
    IF CountTokens(deque) > limit /\ Len(deque) > 1
    THEN TrimToLimit(Tail(deque), limit)
    ELSE deque

\* ContextManager(max_tokens)
InitContext ==
    /\ entries = <<>>
    /\ max_tokens \in 1..MaxContextTokens
    /\ NoTwitch
    /\ NoAvatar
    /\ NoCore

\* add_input(source, content)
AddInput(source, content) ==
    /\ LET formatted == <<"[">> \o Upper(source) \o <<"]", " ">> \o content IN
       entries' =
          TrimToLimit(Append(entries, ContextEntry("user", formatted, source)),
                      max_tokens)
    /\ UNCHANGED <<max_tokens, twitchvars, avatarvars, core>>

\* add_response(text)
AddResponse(text) ==
    /\ entries' =
          TrimToLimit(Append(entries, ContextEntry("assistant", text, None)),
                      max_tokens)
    /\ UNCHANGED <<max_tokens, twitchvars, avatarvars, core>>

NextContext ==
    \/ \E source \in ContextSources, content \in ContextTexts :
          AddInput(source, content)
    \/ \E text \in ContextTexts : AddResponse(text)

SpecContext == InitContext /\ [][NextContext]_vars

\* ------------------------------------------------------------ properties
Generating == {c \in Calls : pc[c] = "awaiting"}

\* the step is the first half of a process() call made by c on event e
BeginStep(c, e) == ncalls' # ncalls /\ entered' = Entered(c, e)

\* the step is the return of text from the LLM call made by c
ReturnStep(c, text) ==
    pc[c] = "awaiting" /\ pc'[c] = "idle" /\ replied' = Replied(c, FALSE, text)

\* the step is the failure of the LLM call made by c
RaiseStep(c) ==
    pc[c] = "awaiting" /\ pc'[c] = "idle" /\ replied' = Replied(c, TRUE, <<>>)

ComboCase(e) == e.source = "vision" /\ last_trigger_source = "chat"

CooldownOver ==
    \/ last_response_time = None
    \/ now - last_response_time[1] >= behavior.cooldown

\* C1: at most one call is in the generation stage at any time, and the flag
\* is held while it is; a call made while the flag is held returns None in
\* that same step, makes no LLM call and leaves nothing behind that would
\* run it later, and when it is a combo or a chat event past the cooldown,
\* which no earlier stage rejects, it is the busy gate that drops it.
C1_BusyGate ==
    /\ [](Cardinality(Generating) <= 1 /\ (Generating # {} => processing_lock))
    /\ [][\A c \in Calls, e \in Events :
            BeginStep(c, e) /\ processing_lock
            => /\ returned' = Return(c, Null)
               /\ UNCHANGED <<pc, event, is_combo_trigger, processing_lock>>
               /\ ComboCase(e) \/ (e.source = "chat" /\ CooldownOver)
                  => log' = Skipping("busy_processing")]_vars

\* one call is generating and another was dropped at the busy gate
C1_Witness ==
    /\ \E c \in Calls : pc[c] = "awaiting" /\ returned.call # c
    /\ returned.value = Null
    /\ log = Skipping("busy_processing")

\* C2: once a response is committed at time t, a non-combo call whose
\* cooldown check happens less than cooldown after t returns None without an
\* LLM call; a call whose check happens at or after t + cooldown is not
\* rejected by the cooldown stage.
C2_Cooldown ==
    [][\A c \in Calls, e \in Events :
         BeginStep(c, e) /\ ~ComboCase(e) /\ committed # <<>>
         => LET t == committed[Len(committed)].time
            IN  IF now - t < behavior.cooldown
                THEN returned' = Return(c, Null) /\ pc' = pc
                ELSE \/ pc'[c] = "awaiting"
                     \/ /\ returned' = Return(c, Null)
                        /\ log' \in {Skipping("criteria_not_met"),
                                     Skipping("busy_processing")}]_vars

\* a call was rejected by the cooldown after a commit, and a later call
\* passed the cooldown stage
C2_Witness ==
    /\ committed # <<>>
    /\ log = Skipping("cooldown")
    /\ \E c \in Calls : pc[c] = "awaiting" /\ ~is_combo_trigger[c]
    /\ now - committed[Len(committed)].time >= behavior.cooldown

\* the text equals one of the recent responses, ignoring case and
\* surrounding whitespace
EqualsRecent(text) ==
    \E k \in 1..Len(recent_responses) :
        Strip(Lower(text)) = Strip(Lower(recent_responses[k]))

\* the step returns None from call c and commits nothing
NothingCommitted(c) ==
    /\ returned' = Return(c, Null)
    /\ UNCHANGED <<last_response_time, last_trigger_source, recent_responses>>
    /\ stm' = stm
    /\ ltm' = ltm

\* C3 as stated: every text the LLM returns that equals a recent response,
\* ignoring case and surrounding whitespace, is rejected with no state
\* update, the empty text included.
C3_AsStated ==
    [][\A c \in Calls, text \in Texts :
         ReturnStep(c, text) /\ EqualsRecent(text) => NothingCommitted(c)]_vars

\* C3, amended: every non-empty text the LLM returns that equals a recent
\* response, ignoring case and surrounding whitespace, is rejected: the call
\* returns None, last_response_time, last_trigger_source and the ring stay,
\* and memory gets no assistant entry.
C3_Dedup ==
    [][\A c \in Calls, text \in Texts :
         ReturnStep(c, text) /\ text # <<>> /\ EqualsRecent(text)
         => NothingCommitted(c)]_vars

\* a text was rejected that differs from a recent response in case or
\* whitespace only
C3_Witness ==
    /\ log.reason = "repetitive_content"
    /\ returned.value = Null
    /\ replied.text # <<>>
    /\ \E k \in 1..Len(recent_responses) :
          /\ replied.text # recent_responses[k]
          /\ Strip(Lower(replied.text)) = Strip(Lower(recent_responses[k]))

\* C4: a vision event processed while last_trigger_source is "chat" skips
\* the admission roll and the cooldown: with the flag free the LLM is called,
\* whatever the roll, vision_rate and the time since the last response, and
\* a returned text that is not repetitive is committed as an OutputEvent.
C4_Combo ==
    /\ [][\A c \in Calls, e \in Events :
            /\ BeginStep(c, e)
            /\ e.source = "vision" /\ last_trigger_source = "chat"
            /\ ~processing_lock
            => pc'[c] = "awaiting" /\ is_combo_trigger'[c]]_vars
    /\ [][\A c \in Calls, text \in Texts :
            /\ ReturnStep(c, text)
            /\ is_combo_trigger[c]
            /\ ~IsRepetitive(text, recent_responses)
            => returned' = Return(c, OutputEvent(text))]_vars

\* a combo response was committed inside the cooldown of the chat response
\* before it, with a vision_rate that admits no vision event
C4_Witness ==
    /\ log.event = "persona_response" /\ log.is_combo
    /\ returned.value = OutputEvent(log.text)
    /\ behavior.vision_rate = 0
    /\ Len(committed) >= 2
    /\ committed[Len(committed)].source = "vision"
    /\ committed[Len(committed) - 1].source = "chat"
    /\ committed[Len(committed)].time - committed[Len(committed) - 1].time
          < behavior.cooldown

\* the short-term memory after one more entry: the entry is last, the
\* entries before it are the former ones, the oldest dropped at capacity
Appended(before, after, entry) ==
    LET shift == Len(before) + 1 - Len(after)
    IN  /\ Len(after) = IF Len(before) < StmCapacity THEN Len(before) + 1
                        ELSE StmCapacity
        /\ after[Len(after)] = entry
        /\ \A i \in 1..(Len(after) - 1) : after[i] = before[i + shift]

\* C5: every process(event) call appends exactly one user entry with the
\* content and the source of the event to short-term memory, whatever its
\* outcome; the completion of the call adds no user entry.
C5_Record ==
    /\ [][\A c \in Calls, e \in Events :
            BeginStep(c, e)
            => \E u \in {NoUser, "u1"} :
                  Appended(stm, stm', [role |-> "user", content |-> e.content,
                                       source |-> e.source, user |-> u])]_vars
    /\ [][ncalls' = ncalls
            => \/ stm' = stm
               \/ /\ stm'[Len(stm')].role = "assistant"
                  /\ Appended(stm, stm', stm'[Len(stm')])]_vars

\* an event of an unknown source was rejected at admission and is the last
\* entry of a short-term memory that has dropped older entries
C5_Witness ==
    /\ log = Skipping("criteria_not_met")
    /\ returned.value = Null
    /\ ncalls + Len(committed) > StmCapacity
    /\ Len(stm) = StmCapacity
    /\ stm[Len(stm)].role = "user"
    /\ stm[Len(stm)].source = "donation"
    /\ stm[Len(stm)].content = <<"a">>

\* C6: when the LLM call raises, process() returns None, the flag is
\* released and last_response_time, last_trigger_source and the ring are
\* what they were when the call began: the step changes none of them, and
\* no step changes them while the call is suspended.
C6_LlmFailure ==
    /\ [][\A c \in Calls :
            RaiseStep(c)
            => /\ returned' = Return(c, Null)
               /\ ~processing_lock'
               /\ UNCHANGED <<last_response_time, last_trigger_source,
                              recent_responses>>]_vars
    /\ [][\A c \in Calls :
            pc[c] = "awaiting" /\ pc'[c] = "awaiting"
            => UNCHANGED <<last_response_time, last_trigger_source,
                           recent_responses>>]_vars

\* the LLM call of a call made after a commit has raised
C6_Witness ==
    /\ log.event = "persona_llm_error"
    /\ replied.raised
    /\ returned.value = Null
    /\ ~processing_lock
    /\ committed # <<>>

\* C7: last_trigger_source and last_response_time are the source and the
\* time of the most recently committed response, unset when there is none,
\* and a step that commits nothing leaves both unchanged.
C7_LastTrigger ==
    /\ [](IF committed = <<>>
          THEN last_response_time = None /\ last_trigger_source = NoSource
          ELSE /\ last_response_time = <<committed[Len(committed)].time>>
               /\ last_trigger_source = committed[Len(committed)].source)
    /\ [][returned'.value = Null
            => UNCHANGED <<last_response_time, last_trigger_source>>]_vars

\* two responses of different sources were committed, then a call returned
\* None
C7_Witness ==
    /\ Len(committed) >= 2
    /\ committed[Len(committed)].source # committed[Len(committed) - 1].source
    /\ returned.value = Null
    /\ log.event = "skipping_response"

\* the texts of the last n committed responses, oldest first
LastCommitted(n) ==
    [i \in 1..n |-> committed[Len(committed) - n + i].text]

\* C8: the ring never holds more than 5 texts and is the texts of the last
\* min(5, k) committed responses in commit order, k being the number of
\* commits so far.
C8_Ring ==
    /\ Len(recent_responses) <= 5
    /\ recent_responses =
          LastCommitted(IF Len(committed) < 5 THEN Len(committed) ELSE 5)

\* a sixth response was committed and the text of the first is gone from
\* the ring
C8_Witness ==
    /\ Len(committed) >= 6
    /\ Len(recent_responses) = 5
    /\ recent_responses[1] = committed[Len(committed) - 4].text
    /\ \A k \in 1..5 : recent_responses[k] # committed[Len(committed) - 5].text

C10_Admission ==
    [][\A c \in Calls, e \in Events :
         BeginStep(c, e)
         => /\ e.source = "chat"
               => \/ pc'[c] = "awaiting"
                  \/ log' \in {Skipping("cooldown"), Skipping("busy_processing")}
            /\ e.source \notin {"chat", "vision", "speech"}
               => /\ returned' = Return(c, Null)
                  /\ log' = Skipping("criteria_not_met")
                  /\ UNCHANGED <<pc, processing_lock, last_response_time,
                                 last_trigger_source, recent_responses>>]_vars

\* an event of an unknown source was rejected while the flag was free and
\* no cooldown was running
C10_Witness ==
    /\ log = Skipping("criteria_not_met")
    /\ returned.value = Null
    /\ entered.event.source = "donation"
    /\ ~processing_lock
    /\ last_response_time = None

\* errors raised by the memory layer and not yet seen by the main loop
Pending == IF LoopCallOver /\ returned.value = Raised THEN 1 ELSE 0

\* C11: an error raised by the memory layer inside process() leaves process()
\* as an exception, with the busy flag released: every such error reaches the
\* main loop, which logs it exactly once, keeps running, and stands again at
\* the read of the input queue with the queue untouched.
C11_MemoryError ==
    /\ [](running /\ loop_pc # "stopped")
    /\ [](memory_errors = loop_errors + Pending)
    /\ [][memory_errors' # memory_errors
            => /\ returned'.value = Raised
               /\ ~processing_lock'
               /\ \A c \in Calls : pc'[c] = "idle"
               /\ loop_pc' \in Calling]_vars
    /\ [][loop_errors' # loop_errors
            => /\ loop_pc' = "get"
               /\ input_queue' = input_queue
               /\ output_queue' = output_queue]_vars

\* the loop caught a memory error and the call it made for a later event
\* returned a response, which is queued for output
C11_Witness ==
    /\ loop_errors >= 1
    /\ memory_errors = loop_errors
    /\ loop_pc = "get"
    /\ returned.value.kind = "OutputEvent"
    /\ output_queue # <<>>

\* s is t with some of its elements left out
RECURSIVE IsSubsequence(_, _)
IsSubsequence(s, t) ==
    IF s = <<>> THEN TRUE
    ELSE IF t = <<>> THEN FALSE
    ELSE IF Head(s) = Head(t) THEN IsSubsequence(Tail(s), Tail(t))
    ELSE IsSubsequence(s, Tail(t))

\* C12: after every add the memory holds at most max_size entries, and
\* get_recent() lists entries that were added, in the order of their adds.
C12_Bounded ==
    /\ Len(memory) <= max_size
    /\ Len(GetRecentAll(memory)) = Len(memory)
    /\ IsSubsequence(GetRecentAll(memory), added)

\* more entries were added than the memory holds, and it is full
C12_Witness ==
    /\ max_size = 2
    /\ Len(added) = 4
    /\ Len(memory) = 2
    /\ memory[1] # memory[2]

\* the last n elements of a sequence
LastOf(s, n) == SubSeq(s, Len(s) - n + 1, Len(s))

\* C13: after m adds the memory holds exactly the last min(m, max_size)
\* entries added, oldest first.
C13_LastAdded ==
    memory = LastOf(added, Min(Len(added), max_size))

\* capacity 3 and the adds a, b, c, d leave b, c, d
C13_Witness ==
    /\ max_size = 3
    /\ [i \in 1..Len(added) |-> added[i].content]
         = << <<"a">>, <<"b">>, <<"c">>, <<"d">> >>
    /\ [i \in 1..Len(memory) |-> memory[i].content]
         = << <<"b">>, <<"c">>, <<"d">> >>

\* retrieve returned a list
Retrieved == ltm_call.op = "retrieve" /\ ~ltm_call.raised

\* C14: every result of retrieve is one of the records the store answered
\* with, carries relevance_score = 1 - distance of that record, and has
\* relevance_score >= min_relevance, whatever the sign of the relevance.
C14_Relevance ==
    Retrieved =>
        \A i \in 1..Len(ltm_call.value) :
            LET r == ltm_call.value[i]
            IN  /\ r.rank \in 1..Len(ltm_call.candidates)
                /\ r.content = ltm_call.candidates[r.rank].content
                /\ r.relevance_score = 100 - ltm_call.candidates[r.rank].distance
                /\ r.relevance_score >= ltm_call.min_relevance

\* the store answered with a record of negative relevance, below the
\* threshold, and with one above it: the first is dropped, the second kept
C14_Witness ==
    /\ Retrieved
    /\ ltm_call.min_relevance = DefaultMinRelevance
    /\ \E i \in 1..Len(ltm_call.candidates) : ltm_call.candidates[i].distance > 100
    /\ Len(ltm_call.value) = 1
    /\ Len(ltm_call.candidates) = 2

\* C15: the list returned by retrieve is in descending order of relevance,
\* and results of equal relevance stand in the order of the store's answer.
C15_Sorted ==
    Retrieved =>
        \A i, j \in 1..Len(ltm_call.value) :
            i < j =>
                LET a == ltm_call.value[i]
                    b == ltm_call.value[j]
                IN  /\ a.relevance_score >= b.relevance_score
                    /\ a.relevance_score = b.relevance_score => a.rank < b.rank

\* two records of different content and equal relevance are returned
C15_Witness ==
    /\ Retrieved
    /\ Len(ltm_call.value) = 2
    /\ ltm_call.value[1].relevance_score = ltm_call.value[2].relevance_score
    /\ ltm_call.value[1].content # ltm_call.value[2].content

\* C16: retrieve returns at most min(n_results, count) results, and on an
\* empty store it returns the empty list, raises nothing and does not query
\* the store.
C16_Capped ==
    /\ Retrieved => Len(ltm_call.value) <= Min(ltm_call.n_results, ltm_call.count)
    /\ ltm_call.op = "retrieve" /\ ltm_call.count = 0
         => /\ ltm_call.value = <<>>
            /\ ~ltm_call.raised
            /\ ~ltm_call.queried

\* the store holds two records within the threshold and one is asked for
C16_Witness ==
    /\ Retrieved
    /\ ltm_call.n_results = 1
    /\ ltm_call.count = 2
    /\ ltm_call.min_relevance < 0
    /\ Len(ltm_call.value) = 1

\* C17: every record of the store was added with force or has a content
\* that should_save_to_ltm accepts; an add without force of a content it
\* rejects returns None and leaves the store as it was.
C17_Admitted ==
    /\ [](\A i \in 1..Len(collection) :
             collection[i].force \/ ShouldSaveToLtm(collection[i].content))
    /\ [][(/\ ltm_call' # ltm_call
           /\ ltm_call'.op = "add_memory"
           /\ ~ltm_call'.force
           /\ ~ShouldSaveToLtm(ltm_call'.content))
            => /\ ~ltm_call'.saved
               /\ ltm_call'.memory_id = NoId
               /\ ~ltm_call'.raised
               /\ collection' = collection]_vars

\* a one-letter content was refused without force while the store holds it
\* from an add with force
C17_Witness ==
    /\ ltm_call.op = "add_memory"
    /\ ~ltm_call.force
    /\ ltm_call.content = <<"a">>
    /\ ~ltm_call.saved
    /\ \E i \in 1..Len(collection) :
          collection[i].content = <<"a">> /\ collection[i].force

\* C18: the id that add_memory gives to a record differs from the id of
\* every record the store holds.
C18_UniqueIds ==
    [][(/\ ltm_call' # ltm_call
        /\ ltm_call'.op = "add_memory"
        /\ ltm_call'.memory_id # NoId)
         => ltm_call'.memory_id \notin Ids(collection)]_vars

\* C19: add_memory of a text that should_save_to_ltm accepts, followed by
\* retrieve of the same text with the default arguments, returns a result
\* with that text as content and relevance 1.
C19_RoundTrip ==
    [][(/\ ltm_call.op = "add_memory"
        /\ ltm_call.saved
        /\ ShouldSaveToLtm(ltm_call.content)
        /\ ltm_call'.op = "retrieve"
        /\ ltm_call'.content = ltm_call.content
        /\ ltm_call'.n_results = DefaultNResults
        /\ ltm_call'.min_relevance = DefaultMinRelevance)
         => /\ ~ltm_call'.raised
            /\ \E i \in 1..Len(ltm_call'.value) :
                  /\ ltm_call'.value[i].content = ltm_call.content
                  /\ ltm_call'.value[i].relevance_score = 100]_vars

\* \b[A-Z][a-z]+\b as written: a capital letter, then lower-case letters
CapitalizedWord(content) ==
    \E i \in 1..Len(content) :
        /\ Boundary(content, i)
        /\ content[i] \in UpperLetters
        /\ \E j \in (i + 1)..Len(content) :
              /\ Boundary(content, j + 1)
              /\ \A k \in (i + 1)..j : content[k] \in LowerLetters

\* C20: should_save_to_ltm is true exactly for a content of at least five
\* words, or with one of the keywords, or with a capitalized word.
C20_SaveWorthy ==
    ltm_call.op = "should_save_to_ltm" =>
        ltm_call.verdict =
            (\/ Len(Split(ltm_call.content)) >= MIN_WORDS_FOR_LTM
             \/ MatchesKeyword(ltm_call.content)
             \/ MatchesTimeReference(ltm_call.content)
             \/ CapitalizedWord(ltm_call.content))

\* build_messages returned a list
Built == build.op = "build_messages" /\ ~build.raised

IsPrefix(p, t) == Len(p) <= Len(t) /\ SubSeq(t, 1, Len(p)) = p

IsSuffix(p, t) ==
    Len(p) <= Len(t) /\ SubSeq(t, Len(t) - Len(p) + 1, Len(t)) = p

\* p stands in t from position i on
OccursAt(t, i, p) ==
    i >= 1 /\ i + Len(p) - 1 <= Len(t) /\ SubSeq(t, i, i + Len(p) - 1) = p

Occurs(p, t) == \E i \in 1..Len(t) : OccursAt(t, i, p)

\* the entries that the call had to render
Recent == LastOf(memory, Min(stm_message_count, Len(memory)))

\* the long-term block of the call
Block == GetFormattedContext(build.answer.results)

\* the system prompt and the block as the compressor, if any, receives them
Uncompressed ==
    IF Block # <<>> THEN build.system_prompt \o <<"\n\n">> \o Block
    ELSE build.system_prompt

\* the compression service answered with an output
Compressed == build.outcome = "ok"

\* C21: build_messages returns exactly two messages, a system message with
\* the system prompt and the long-term context, then a user message made of
\* the rendered short-term block followed by the current input and the
\* instruction; no entry of the memory is a message of its own.
C21_TwoMessages ==
    Built =>
        /\ Len(build.messages) = 2
        /\ build.messages[1].role = "system"
        /\ build.messages[2].role = "user"
        /\ ~Compressed =>
              /\ Occurs(build.system_prompt, build.messages[1].content)
              /\ Occurs(Block, build.messages[1].content)
        /\ IsPrefix(Join([i \in 1..Len(Recent) |-> RenderEntry(Recent[i])], "\n"),
                    build.messages[2].content)
        /\ IsSuffix(<<CurrentTag>> \o build.current_input \o <<"\n", Instruction>>,
                    build.messages[2].content)
        /\ \A i \in 1..Len(build.messages) :
              build.messages[i].role # "assistant"

\* the memory holds a response and an input, and the store answered
C21_Witness ==
    /\ Built
    /\ Len(build.messages) = 2
    /\ Block # <<>>
    /\ \E i, j \in 1..Len(Recent) :
          Recent[i].role = "assistant" /\ Recent[j].role = "user"

EntryTags ==
    {"[You previously said]: ", "[What you see on stream]: ",
     "[Streamer said]: ", "[Chat from ", "[Input]: "}

C23_Prepended ==
    Built =>
        /\ Block # <<>> =>
              /\ IsPrefix(Block, build.messages[1].content)
              /\ IsSuffix(build.system_prompt, build.messages[1].content)
              /\ ~Occurs(Block, build.messages[2].content)
        /\ Block = <<>> => build.messages[1].content = build.system_prompt

\* C23: a non-empty long-term block stands after the system prompt and a
\* blank line in the text of the system message, and never in the user
\* message; with no block that text is the system prompt alone; the system
\* message is that text, or the output of the compressor for it.
C23_Appended ==
    Built =>
        /\ IF Compressed
           THEN build.messages[1].content = CompressedText
           ELSE build.messages[1].content = Uncompressed
        /\ Block # <<>> =>
              /\ IsPrefix(build.system_prompt \o <<"\n\n">>, Uncompressed)
              /\ IsSuffix(Block, Uncompressed)
              /\ ~Occurs(Block, build.messages[2].content)
        /\ Block = <<>> => Uncompressed = build.system_prompt

\* the store answered, the memory is not empty, nothing was compressed
C23_Witness ==
    /\ Built
    /\ Block # <<>>
    /\ ~Compressed
    /\ memory # <<>>
    /\ build.messages[1].content # build.system_prompt

\* C24: when the compression service raises an error of any kind,
\* build_messages still returns its two messages and the system message is
\* the uncompressed text.
C24_CompressorFailure ==
    build.op = "build_messages" /\ build.outcome \in CompressErrors =>
        /\ ~build.raised
        /\ Len(build.messages) = 2
        /\ build.messages[1].content = Uncompressed
        /\ build.messages[2].role = "user"

\* the service raised an error that is none of the four listed ones
C24_Witness ==
    /\ build.outcome = "Exception"
    /\ ~build.raised
    /\ Block # <<>>
    /\ build.messages[1].content = Uncompressed

\* C25: when the content of the reply is not valid JSON or does not match
\* the schema, get_persona_response does not raise and returns the raw
\* content as text, or the apology when the content is empty.
C25_BestEffort ==
    /\ llm_call.op = "get_persona_response"
    /\ llm_call.status = 200
    /\ llm_call.body = "json"
    /\ ~IsJson(llm_call.content) \/ ~Validates(llm_call.content)
    => /\ llm_call.raised = ""
       /\ llm_call.value =
             TextDict(IF llm_call.content # <<>> THEN llm_call.content
                      ELSE <<Apology>>)

\* the texts that a persona or settings put in the system prompt
FieldsOf(config) ==
    {config.name, config.personality,
     IF config.streamer_name # "" THEN config.streamer_name ELSE "the streamer"}
      \cup {config.style[i] : i \in 1..Len(config.style)}

\* the call c is suspended at the LLM call
InFlight(c) == pc[c] = "awaiting"

\* C26: the persona and its behavior are at all times those of one
\* configuration, never a mix of two; update_persona leaves a generation in
\* flight as it is, admitted and with the prompt of the configuration it
\* began under; and a process() call begun after update_persona is admitted,
\* cooled down and prompted with every field of the new settings.
C26_AtomicUpdate ==
    /\ [](persona_settings # None =>
            LET settings == persona_settings[1]
            IN  /\ persona.name = settings.name
                /\ persona.personality = settings.personality
                /\ persona.style = settings.style
                /\ persona.streamer_name \in FieldsOf(settings)
                /\ behavior.vision_rate = settings.behavior.vision_rate
                /\ behavior.speech_rate = settings.behavior.speech_rate
                /\ behavior.cooldown = settings.behavior.cooldown)
    /\ [][/\ persona_settings' # persona_settings =>
                UNCHANGED <<pc, event, is_combo_trigger, prompt, processing_lock,
                            returned, log, gating>>
          /\ \A c \in Calls :
                InFlight(c) /\ pc'[c] = "awaiting" => prompt'[c] = prompt[c]]_vars
    /\ [][\A c \in Calls, e \in PersonaEvents :
            BeginStep(c, e) /\ persona_settings # None =>
                LET settings == persona_settings[1]
                    accepted == pc'[c] = "awaiting"
                    others == UNION {FieldsOf(config) :
                                       config \in (Settings \cup {YamlPersona})
                                                    \ {settings}}
                IN  /\ accepted =>
                          /\ \A field \in FieldsOf(settings) :
                                \E i \in 1..Len(prompt'[c]) : prompt'[c][i] = field
                          /\ \A i \in 1..Len(prompt'[c]) : prompt'[c][i] \notin others
                    /\ accepted /\ e.source = "vision" /\ ~is_combo_trigger'[c]
                          => settings.behavior.vision_rate > 0
                    /\ e.source = "vision" /\ last_trigger_source # "chat"
                       /\ settings.behavior.vision_rate = 0
                          => ~accepted /\ log' = Skipping("criteria_not_met")
                    /\ ~accepted /\ log' = Skipping("cooldown")
                          => /\ last_response_time # None
                             /\ now - last_response_time[1]
                                  < settings.behavior.cooldown]_vars

\* a vision call admitted under the first configuration is in flight, with
\* the prompt of that configuration, after an update that would not admit it
C26_Witness ==
    /\ persona_settings # None
    /\ behavior.vision_rate = 0
    /\ \E c \in Calls :
          /\ InFlight(c)
          /\ event[c].source = "vision"
          /\ ~is_combo_trigger[c]
          /\ \E i \in 1..Len(prompt[c]) : prompt[c][i] = YamlPersona.name
          /\ \A i \in 1..Len(prompt[c]) : prompt[c][i] \notin FieldsOf(persona)

\* _main_loop is inside _process_vision_batch
Flushing == loop_pc \in {"batch_full", "batch_timeout"}

\* a vision event reaches brain.process only from a flush, as the synthetic
\* event of the latest sample and of the number of samples, and a flush
\* makes one call
SyntheticOnly ==
    /\ [](loop_pc = "process" => loop_event.source # "vision")
    /\ [](Flushing =>
            /\ vision_buffer # <<>>
            /\ loop_event.source = "vision"
            /\ loop_event.content = SceneTag \o vision_buffer[Len(vision_buffer)]
            /\ loop_event.batch_size = Len(vision_buffer))
    /\ [][/\ ncalls' # ncalls =>
                /\ loop_pc \in Calling
                /\ loop_pc' = loop_pc
                /\ ncalls = loop_calls
                /\ entered'.event = loop_event
          /\ Flushing /\ loop_pc' # loop_pc =>
                /\ ncalls = loop_calls + 1
                /\ loop_pc' = "get"]_vars

\* C27 as stated: a vision event reaches the brain only as the synthetic
\* event of a flush, one call per flush, and the samples of the batch are
\* gone from the buffer when the flush is over.
C27_Discarded ==
    /\ SyntheticOnly
    /\ [][Flushing /\ loop_pc' # loop_pc => vision_buffer' = <<>>]_vars

\* C28: a buffer of 5 samples is flushed at once, and a non-empty buffer is
\* always flushed in the end, also when the batch timeout has passed since
\* the last flush, whatever events keep arriving on the input queue.
C28_EventuallyFlushed ==
    /\ [](Len(vision_buffer) >= VisionBatchSize => Flushing)
    /\ (vision_buffer # <<>>) ~> Flushing
    /\ (vision_buffer # <<>> /\ elapsed >= VisionBatchTimeout) ~> Flushing

\* C29: the outputs put on the output queue are those that brain.process
\* returned, each once and in that order, and none is left unput when the
\* main loop goes round; each sink is handed the outputs taken from the
\* queue, each once and in that order; and every output returned is handed
\* to both sinks in the end.
C29_ExactlyOnce ==
    /\ [](IsPrefix(taken \o output_queue, produced))
    /\ [](loop_pc = "get" => taken \o output_queue = produced)
    /\ [](\A s \in Sinks : IsPrefix(handled[s], taken))
    /\ \A k \in 1..MaxOutputs :
          (Len(produced) >= k) ~> (\A s \in Sinks : Len(handled[s]) >= k)

\* two different outputs have been handed to both sinks
C29_Witness ==
    /\ Len(produced) = 2
    /\ produced[1] # produced[2]
    /\ \A s \in Sinks : handled[s] = produced

\* C30: when handle() of a sink has raised for an output, the task of the
\* other sink for that output is never dropped: it is started and comes to
\* its end; the output loop stays in its cycle and the outputs returned
\* after the error are handed to both sinks.
C30_SinkIsolation ==
    /\ [](out_pc \in {"get", "gather"})
    /\ [][\A s \in Sinks : \A n \in 1..Len(sinks[s]) :
            /\ sinks[s][n] = "created" => sinks'[s][n] \in {"created", "running"}
            /\ sinks[s][n] = "running"
                  => sinks'[s][n] \in {"running", "done", "raised"}]_vars
    /\ \A n \in 1..MaxOutputs :
          (\E s \in Sinks : Len(sinks[s]) >= n /\ sinks[s][n] = "raised")
             ~> (\A o \in Sinks :
                    /\ Len(handled[o]) >= n
                    /\ handled[o][n] = taken[n]
                    /\ sinks[o][n] \in {"done", "raised"})
    /\ \A k \in 1..MaxOutputs :
          (output_errors > 0 /\ Len(produced) >= k)
             ~> (\A s \in Sinks : Len(handled[s]) >= k)

\* the TTS raised for the first output, the avatar handled it to the end,
\* and the second output has been handed to both
C30_Witness ==
    /\ output_errors > 0
    /\ Len(taken) = 2
    /\ sinks["tts"][1] = "raised"
    /\ sinks["avatar"][1] = "done"
    /\ \A s \in Sinks : Len(handled[s]) = 2 /\ sinks[s][2] = "done"

\* the events of a sequence that are not vision events
NonVision(events) == SelectSeq(events, LAMBDA e : e.source # "vision")

\* the events that _main_loop has taken from the input queue
TakenFromQueue == SubSeq(queued, 1, Len(queued) - Len(input_queue))

\* C31: the input queue holds the events not yet taken in the order they
\* were put; the events passed to brain.process are the non-vision events
\* taken, in the order they were put, so that two events of one producer are
\* never passed out of their arrival order; and while a process() call has
\* not returned the loop takes no event and passes none.
C31_ArrivalOrder ==
    /\ [](/\ input_queue
                = SubSeq(queued, Len(queued) - Len(input_queue) + 1, Len(queued))
          /\ passed = NonVision(TakenFromQueue)
          /\ loop_pc = "process" => loop_event = passed[Len(passed)])
    /\ [][(loop_pc \in Calling)
             => (Len(input_queue') >= Len(input_queue) /\ passed' = passed)]_vars

\* three events of two chat users and the microphone were put while the first
\* call was running, and all three calls are over
C31_Witness ==
    /\ passed = <<InputEvent("chat", <<"a">>, <<"u1">>),
                  InputEvent("speech", <<"b">>, <<>>),
                  InputEvent("chat", <<"c">>, <<"u2">>)>>
    /\ ncalls = 3
    /\ loop_pc = "get"
    /\ loop_errors > 0

\* the words of a vocabulary
Vocabulary(list) == {list[i] : i \in 1..Len(list)}

\* C32: every OutputEvent returned by the emotion-aware process() carries an
\* emotion of the declared vocabulary or "neutral"; it is "neutral" whenever
\* the emotion named by the LLM is not in the vocabulary.
C32_EmotionValidated ==
    emotion_call.value.kind = "OutputEvent"
       => /\ emotion_call.value.emotion \in Vocabulary(emotions) \cup {"neutral"}
          /\ emotion_call.reply.emotion \notin Vocabulary(emotions)
                => emotion_call.value.emotion = "neutral"

\* the LLM named an emotion outside a vocabulary that has no "neutral", and
\* the OutputEvent was returned
C32_Witness ==
    /\ emotion_call.value.kind = "OutputEvent"
    /\ emotion_call.reply.emotion = "angry"
    /\ emotions = <<"happy", "sad">>
    /\ emotion_call.value.emotion = "neutral"

\* C33: the busy flag is set exactly while a call stands between acquiring it
\* and returning; every step in which such a call returns or raises leaves
\* the flag free; a call that returns or raises in the step that begins it
\* leaves the flag as it found it; and a flag that is set is freed again.
C33_BusyFlag ==
    /\ [](processing_lock <=> \E c \in Calls : pc[c] = "awaiting")
    /\ [][\A c \in Calls :
            (pc[c] = "awaiting" /\ pc'[c] = "idle") => ~processing_lock']_vars
    /\ [][(ncalls' = ncalls + 1 /\ pc' = pc)
            => processing_lock' = processing_lock]_vars
    /\ processing_lock ~> ~processing_lock

\* a call was dropped at the busy gate while another held the flag, the one
\* that held it was left by an error of the memory layer, and the flag is free
C33_Witness ==
    /\ ~processing_lock
    /\ returned.value = Raised
    /\ replied.call = returned.call
    /\ ~replied.raised
    /\ log = Skipping("busy_processing")
    /\ ncalls = 2

\* the source of the response committed last, NoSource when there is none
LastCommittedSource ==
    IF committed = <<>> THEN NoSource ELSE committed[Len(committed)].source

\* C34: a response committed through the combo path is a vision response that
\* directly follows a chat response, so two of them have a chat response
\* committed in between; and a vision event that arrives when the response
\* committed last is not a chat response is no combo: it is rejected by the
\* admission roll when that fails and by the cooldown when that is running.
C34_ComboConsumed ==
    /\ [](\A i \in 1..Len(committed) :
             committed[i].combo
                => /\ committed[i].source = "vision"
                   /\ i > 1
                   /\ committed[i - 1].source = "chat"
                   /\ \A j \in (i + 1)..Len(committed) :
                         committed[j].combo
                            => \E k \in (i + 1)..(j - 1) :
                                  committed[k].source = "chat")
    /\ [][\A c \in Calls, e \in ComboEvents :
            /\ BeginStep(c, e)
            /\ e.source = "vision"
            /\ LastCommittedSource # "chat"
            => /\ ~is_combo_trigger'[c]
               /\ behavior.vision_rate = 0
                     => /\ returned' = Return(c, Null)
                        /\ log' = Skipping("criteria_not_met")
               /\ (behavior.vision_rate = 100 /\ ~CooldownOver)
                     => /\ returned' = Return(c, Null)
                        /\ log' = Skipping("cooldown")]_vars

\* a chat response, a combo response, a chat response again and a second
\* combo response, with one call of the five that committed nothing
C34_Witness ==
    /\ Len(committed) = 4
    /\ committed[1].source = "chat" /\ committed[2].combo
    /\ committed[3].source = "chat" /\ committed[4].combo
    /\ ncalls = 5
    /\ behavior.vision_rate = 100

\* the step appends an assistant entry to short-term memory
StoredStep ==
    stm' # stm /\ stm' # <<>> /\ stm'[Len(stm')].role = "assistant"

\* the step ends a process() call with an OutputEvent
OutputStep ==
    /\ \E c \in Calls : pc[c] = "awaiting" /\ pc'[c] = "idle"
    /\ returned'.value.kind = "OutputEvent"

\* the step pushes a text to the recent-response ring
PushedStep == recent_responses' # recent_responses

\* C35: the commit is all or nothing: a step appends an assistant entry to
\* short-term memory exactly when it returns an OutputEvent and exactly when
\* it pushes a text to the ring, so that the three counts are equal after
\* any sequence of calls, the long-term store raising or not.
C35_AllOrNothing ==
    [][(StoredStep <=> OutputStep) /\ (OutputStep <=> PushedStep)]_vars

\* the k most recently added entries of a memory, oldest first
MostRecent(deque, k) == SubSeq(deque, Len(deque) - k + 1, Len(deque))

\* C36: get_recent(n) returns the min(n, len) most recently added entries,
\* oldest first, none for n = 0; get_recent() returns all entries; and a call
\* of get_recent leaves the memory as it is.
C36_MostRecent ==
    /\ [](recent_call.called
            => recent_call.value =
                  IF recent_call.n = None THEN recent_call.deque
                  ELSE MostRecent(recent_call.deque,
                                  Min(recent_call.n[1], Len(recent_call.deque))))
    /\ [][recent_call' # recent_call
            => memory' = memory /\ recent_call'.deque = memory]_vars

\* C37: the vision buffer never holds more than vision_batch_size samples,
\* and it is empty when a flush attempt is over, whether brain.process
\* returned or raised; a batch is the content of the buffer, so that no sample
\* left in it is counted again in the next batch.
C37_BufferBounded ==
    /\ [](Len(vision_buffer) <= VisionBatchSize)
    /\ [][(Flushing /\ ~Flushing')
            => (vision_buffer' = <<>> /\ loop_pc' = "get")]_vars

\* the batches are made of the messages, in their order: each batch holds
\* at least one message and takes the next ones of the sequence, nothing is
\* left over
RECURSIVE Covers(_, _)
Covers(batches, messages) ==
    IF batches = <<>> THEN messages = <<>>
    ELSE LET k == batches[1].message_count IN
         /\ k >= 1
         /\ k <= Len(messages)
         /\ batches[1] = ChatEvent(SubSeq(messages, 1, k))
         /\ Covers(Tail(batches), SubSeq(messages, k + 1, Len(messages)))

\* the messages put on the queue so far
RECURSIVE CountQueued(_)
CountQueued(batches) ==
    IF batches = <<>> THEN 0
    ELSE batches[1].message_count + CountQueued(Tail(batches))

\* C38: the messages received that are not echoes are, in the order of
\* their arrival, the messages of the batches on the queue followed by the
\* ones still in the buffer: none is lost, none is in two batches, no batch
\* is empty, whichever of the size and the timer flushed; and as long as the
\* processor runs, every message received comes to be on the queue.
C38_EachMessageOnce ==
    /\ [](/\ CountQueued(Batches) + Len(message_buffer) = Len(received)
          /\ Covers(Batches, SubSeq(received, 1, CountQueued(Batches)))
          /\ message_buffer =
                SubSeq(received, CountQueued(Batches) + 1, Len(received)))
    /\ \A k \in 1..MaxChat :
          (Len(received) >= k)
             ~> (CountQueued(Batches) >= k \/ ~bot_running)

\* C38 witness: three messages came, the first two were flushed by the
\* size of the buffer, the third by the timer
C38_Witness ==
    /\ Len(received) = 3
    /\ Len(Batches) = 2
    /\ Batches[1].message_count = MaxBatchSize
    /\ Batches[2].message_count = 1
    /\ message_buffer = <<>>
    /\ bot_running

\* C39: a broadcast that has ended has returned, it has tried every client
\* that was connected from its start to its end, so that a failing send or
\* a client coming or going while a send is awaited kept none of them from
\* the update, and the clients whose send failed are not in the set it
\* leaves.
C39_BroadcastReachesAll ==
    broadcast_call.pc = "done" =>
       /\ broadcast_call.outcome = "returned"
       /\ broadcast_call.stayed
             \subseteq (broadcast_call.sent \cup broadcast_call.dead)
       /\ broadcast_call.left \cap broadcast_call.dead = {}

\* C40: after every add_input and add_response the estimated token count,
\* the characters of all entries divided by 4 and rounded down, is at most
\* max_tokens, whatever was added and however long; what is kept is the
\* newest entries, in their order.
C40_UnderTokenLimit ==
    /\ [](CountTokens(entries) <= max_tokens)
    /\ [][entries' # entries
            => \E k \in 0..Len(entries) :
                  /\ Len(entries') = Len(entries) - k + 1
                  /\ SubSeq(entries', 1, Len(entries') - 1) =
                        SubSeq(entries, k + 1, Len(entries))]_vars

====
